---- MODULE Spec2Model ----
(***************************************************************************)
(* Task orchestration engine of opencode-atlassian: the Jira poller, the   *)
(* SQLite task table, the bounded task queue, the workflow workers and the *)
(* ProcessTask workflow (saga) with its compensation and failure handler.  *)
(***************************************************************************)
EXTENDS Integers, Sequences, FiniteSets, TLC

(***************************************************************************)
(* Bounds of the model.                                                    *)
(***************************************************************************)
\* rows the poller may insert in one run of the model
MaxTasks == 2
\* issues in one search result
MaxIssues == 2
\* config.concurrency: number of worker fibers forked by startHandler
Concurrency == 2
\* capacity of Queue.bounded (100 in the program, scaled down; more than one,
\* as in the program)
QueueCapacity == 2

\* restarts of the process in one run of the model
MaxRestarts == 1

\* largest --limit the list subcommand is run with (less than MaxTasks, so
\* that the table can hold more rows than the limit)
MaxLimit == 1

\* seconds that pass on the clock of the task store
MaxClock == 2

\* pages the tracker holds for one search, and issues on one page
MaxPages == 2
MaxPageIssues == 1

\* rows of the runs that fill the queue: one more than its capacity holds
MaxRows == IF QueueCapacity + 1 > MaxTasks THEN QueueCapacity + 1 ELSE MaxTasks

TaskIds == 1..MaxRows
Workers == 1..Concurrency

(***************************************************************************)
(* Data: Jira issues, task rows, configuration.                            *)
(***************************************************************************)
IssueIds == {"10001", "10002", "10003"}

IssueKeyOf(i) ==
  IF i = "10001" THEN "PROJ-1" ELSE IF i = "10002" THEN "PROJ-2" ELSE "PROJ-3"

JiraStatusNames == {"To Do", "Doing"}

\* JiraIssue values the tracker can return (id, key, fields.status.name)
JiraIssue == {[id |-> i, key |-> IssueKeyOf(i), status |-> s] :
                i \in IssueIds, s \in JiraStatusNames}

TaskStatus == {"WAITING_TO_WORK", "IN_PROGRESS", "DONE", "FAILED"}

ACTIVE_STATUSES == {"WAITING_TO_WORK", "IN_PROGRESS"}

\* repository URLs the process may be configured with; a string is the
\* sequence of its pieces
RepositoryUrls ==
  {<<"git@bitbucket.org:", "ws", "/", "repo", ".git">>,
   <<"https://", "example.com/", "ws", "/", "repo", ".git">>}

\* JSON.stringify(issue)
JsonStringify(issue) == <<"json", issue>>

\* Option values
None == <<>>

Some(v) == <<v>>

IsSome(o) == o # <<>>

\* sequences over S of length at most n
SeqUpTo(S, n) == UNION {[1..k -> S] : k \in 0..n}

(***************************************************************************)
(* Task store (Database.ts).  tasks is the table in id order.              *)
(***************************************************************************)
\* rows of the table that are active for a Jira id
ActiveRows(rows, jiraId) ==
  {i \in DOMAIN rows : rows[i].jiraId = jiraId /\ rows[i].status \in ACTIVE_STATUSES}

\* variant: the lookup only matches status = 'IN_PROGRESS'
findInProgressByJiraId(rows, jiraId) ==
  LET act == {i \in ActiveRows(rows, jiraId) : rows[i].status = "IN_PROGRESS"}
  IN  IF act = {} THEN None
      ELSE Some(rows[CHOOSE i \in act : \A j \in act : j <= i])

\* variant: the lookup has no status condition
findAnyByJiraId(rows, jiraId) ==
  LET any == {i \in DOMAIN rows : rows[i].jiraId = jiraId}
  IN  IF any = {} THEN None
      ELSE Some(rows[CHOOSE i \in any : \A j \in any : j <= i])

\* SELECT ... WHERE jira_id = ? AND status IN (...) ORDER BY created_at DESC LIMIT 1
findActiveByJiraId(rows, jiraId) ==
  LET act == ActiveRows(rows, jiraId)
  IN  IF act = {} THEN None
      ELSE Some(rows[CHOOSE i \in act : \A j \in act : j <= i])

\* variant: the status column is left to its default
insertDefaultStatus(rows, taskInsert) ==
  Append(rows, [id         |-> Len(rows) + 1,
                jiraId     |-> taskInsert.jiraId,
                jiraKey    |-> taskInsert.jiraKey,
                jiraStatus |-> taskInsert.jiraStatus,
                status     |-> "WAITING_TO_WORK",
                data       |-> taskInsert.data])

\* INSERT ... RETURNING *: AUTOINCREMENT id, the row is appended
insert(rows, taskInsert) ==
  Append(rows, [id         |-> Len(rows) + 1,
                jiraId     |-> taskInsert.jiraId,
                jiraKey    |-> taskInsert.jiraKey,
                jiraStatus |-> taskInsert.jiraStatus,
                status     |-> taskInsert.status,
                data       |-> taskInsert.data])

\* variant: the UPDATE has no WHERE clause
updateStatusAllRows(rows, id, status) ==
  [i \in DOMAIN rows |-> [rows[i] EXCEPT !.status = status]]

\* UPDATE tasks SET status = ? WHERE id = ?
updateStatus(rows, id, status) ==
  [i \in DOMAIN rows |->
     IF rows[i].id = id THEN [rows[i] EXCEPT !.status = status] ELSE rows[i]]

\* variant: the status name stored is the one the search filters on
TaskInsertFilterStatus(issue) ==
  [jiraId     |-> issue.id,
   jiraKey    |-> issue.key,
   jiraStatus |-> "To Do",
   status     |-> "WAITING_TO_WORK",
   data       |-> JsonStringify(issue)]

\* new TaskInsert({...}) of processJiraIssue
TaskInsert(issue) ==
  [jiraId     |-> issue.id,
   jiraKey    |-> issue.key,
   jiraStatus |-> issue.status,
   status     |-> "WAITING_TO_WORK",
   data       |-> JsonStringify(issue)]

(***************************************************************************)
(* Workflow helpers (TaskWorkflow.ts).                                     *)
(***************************************************************************)
\* variant: one directory for all tasks
tempDirShared(taskId) == <<"tmp", "opencode-task">>

\* join(tmpdir(), `opencode-task-${taskId}`)
tempDir(taskId) == <<"tmp", "opencode-task", ToString(taskId)>>

\* payload handed to TaskWorkflow.execute by the worker
Payload(task) == [taskId |-> task.id, jiraKey |-> task.jiraKey, jiraData |-> task.data]

NoPayload == [taskId |-> 0, jiraKey |-> "", jiraData |-> <<>>]

\* variant: the directory is not removed
RmRfSkipped(ds, dir) == ds

\* Bun.spawnSync(["rm", "-rf", dir])
RmRf(ds, dir) == ds \ {dir}

\* outcomes of the CloneRepository activity: success, or the phase of the
\* TaskWorkflowError it fails with
CloneOutcomes == {"ok", "clone", "clone-verify", "checkout"}

\* the CloneRepository activity on the set of existing directories:
\* rm -rf, git clone, test -d, git checkout -b
CloneRepository(ds, dir, outcome) ==
  LET cleaned == RmRf(ds, dir)
      cloned  == IF outcome \in {"clone", "clone-verify"} THEN cleaned
                 ELSE cleaned \cup {dir}
  IN  cloned

\* variant: no compensation finalizer is ever registered
withoutCompensation(outcome) == FALSE

\* TaskWorkflow.withCompensation: the finalizer is added by Effect.tap, that
\* is only when the wrapped activity has succeeded
withCompensation(outcome) == outcome = "ok"

\* `feature/${payload.jiraKey}-${payload.taskId}`
branchName(jiraKey, taskId) == <<"feature/", jiraKey, "-", ToString(taskId)>>

\* config.baseBranch
baseBranch == "main"

\* remoteUrl.replace(/\.git$/, "")
cleanUrl(remoteUrl) ==
  IF remoteUrl # <<>> /\ remoteUrl[Len(remoteUrl)] = ".git"
  THEN SubSeq(remoteUrl, 1, Len(remoteUrl) - 1) ELSE remoteUrl

\* pieces that hold a slash; every other piece is part of a path segment
SlashPieces == {"/", "https://", "http://", "bitbucket.org/", "example.com/",
                "github.com/"}

\* path.split("/") of a path made of segment pieces and "/" pieces: the
\* strings between the slashes
RECURSIVE split(_)
split(path) ==
  IF \A i \in DOMAIN path : path[i] # "/" THEN <<path>>
  ELSE LET k == CHOOSE i \in DOMAIN path :
                  path[i] = "/" /\ \A j \in 1..(i - 1) : path[j] # "/"
       IN  <<SubSeq(path, 1, k - 1)>> \o split(SubSeq(path, k + 1, Len(path)))

\* positions where /bitbucket\.org\/([^/]+)\/([^/]+)/ matches: the host piece
\* followed by a segment, a slash and a segment
MatchPositions(url) ==
  {i \in DOMAIN url : /\ url[i] = "bitbucket.org/"
                      /\ i + 3 <= Len(url)
                      /\ url[i + 1] \notin SlashPieces
                      /\ url[i + 2] = "/"
                      /\ url[i + 3] \notin SlashPieces}

\* encodeURIComponent: of the characters of branch names, the slash is escaped
encodeURIComponent(str) ==
  [i \in DOMAIN str |-> IF str[i] = "feature/" THEN "feature%2F"
                        ELSE IF str[i] = "/" THEN "%2F" ELSE str[i]]

\* the workspace and the repository getBitbucketPrUrl extracts from the
\* remote URL, or None where it fails with a GitError
ParseRemoteUrl(remoteUrl) ==
  LET url == cleanUrl(remoteUrl)
  IN  IF url # <<>> /\ url[1] = "git@bitbucket.org:"
      THEN LET parts == split(Tail(url))
           IN  IF Len(parts) < 2 \/ parts[1] = <<>> \/ parts[2] = <<>>
               THEN None
               ELSE Some([workspace |-> parts[1], repo |-> parts[2]])
      ELSE IF \E i \in DOMAIN url : url[i] = "bitbucket.org/"
      THEN IF MatchPositions(url) = {} THEN None
           ELSE LET k == CHOOSE i \in MatchPositions(url) :
                           \A j \in MatchPositions(url) : i <= j
                IN  Some([workspace |-> <<url[k + 1]>>, repo |-> <<url[k + 3]>>])
      ELSE None

\* remote URLs: SSH and HTTPS URLs of the host with and without workspace and
\* repository, URLs of other hosts (github.com, mybitbucket.org), and the
\* empty string
RemoteUrls ==
  {<<"git@bitbucket.org:", "ws", "/", "repo", ".git">>,
   <<"git@bitbucket.org:", "ws">>,
   <<"git@bitbucket.org:", "/", "repo", ".git">>,
   <<"https://", "bitbucket.org/", "ws", "/", "repo", ".git">>,
   <<"https://", "user@", "bitbucket.org/", "ws", "/", "repo">>,
   <<"https://", "bitbucket.org/", "ws">>,
   <<"https://", "github.com/", "ws", "/", "repo", ".git">>,
   <<"git@github.com:", "ws", "/", "repo", ".git">>,
   <<"https://", "my", "bitbucket.org/", "ws", "/", "repo", ".git">>,
   <<>>}

\* ParseRemoteUrl tabulated on the URLs of the model
ParsedRemoteUrls == [url \in RepositoryUrls \cup RemoteUrls |-> ParseRemoteUrl(url)]

\* gitService.getBitbucketPrUrl succeeds
getBitbucketPrUrlOk(url) == IsSome(ParsedRemoteUrls[url])

\* gitService.getBitbucketPrUrl: the PR creation URL of the workspace and the
\* repository of the remote, or a GitError (None)
getBitbucketPrUrl(remoteUrl, branch, base) ==
  IF getBitbucketPrUrlOk(remoteUrl)
  THEN LET parsed == ParsedRemoteUrls[remoteUrl][1]
       IN  Some(<<"https://bitbucket.org/", parsed.workspace, "/", parsed.repo,
                  "/pull-requests/new?source=", encodeURIComponent(branch),
                  "&dest=", encodeURIComponent(<<base>>)>>)
  ELSE None

\* the comment posted by jiraClient.addComment(jiraKey, `Pull Request: ${prUrl}`)
PullRequestComment(jiraKey, prUrl) ==
  [issueKey |-> jiraKey, body |-> <<"Pull Request: ", prUrl>>]

\* variant: the failure is logged by tapError and not swallowed
EffectTapErrorOnly(cause) == cause

\* Effect.ignore: a typed failure is swallowed, a defect is not
EffectIgnore(cause) == IF cause = "fail" THEN "none" ELSE cause

\* variant: the write is wrapped so that a throwing statement is dropped
EffectSyncDropped(ok) == "none"

\* Effect.sync(() => db.run(...)): a throwing thunk is a defect
EffectSync(ok) == IF ok THEN "none" ELSE "die"

\* variant: the handler recovers (catchAllCause), the workflow ends with the
\* handler's own result
catchAllCauseInWorkflow(cause, tapCause) == tapCause

\* Effect.tapErrorCause: the workflow keeps failing with its own cause, to
\* which a failure of the tap is added (a defect, when the tap dies)
tapErrorCause(cause, tapCause) == IF tapCause = "none" THEN cause ELSE tapCause

\* variant: Effect.catchAll, which recovers from typed failures only
catchAll(cause) == cause \in {"none", "fail"}

\* Effect.catchAllCause of the worker: every cause is recovered from
catchAllCause(cause) == cause \in {"none", "fail", "die"}

(***************************************************************************)
(* State.                                                                  *)
(***************************************************************************)
VARIABLES
  repositoryUrl, \* config.repositoryUrl
  tasks,         \* the tasks table
  queue,         \* runnerQueue: Task values offered and not yet taken
  dirs,          \* working directories that exist on disk
  pollPc,        \* position of the polling fiber
  pollIssues,    \* issues of the running cycle not yet processed
  pollTask,      \* Option: task created by processJiraIssue, to be offered
  lastCycle,     \* how the last cycle ended, or that one is running
  cycles,        \* pollCycle executions started and not yet completed
  skipped,       \* issues the running or last cycle skipped ("[Sync] Skipping")
  wpc,           \* position of each worker fiber
  wtask,         \* payload of the workflow each worker executes
  wf,            \* per worker, the workflow execution in progress
  enq,           \* history: Queue.offer calls completed per task id
  runs,          \* history: per task id, Queue.take results and executions
  session,       \* one invocation of OpenCodeClient.runTask
  adf,           \* one call of adfToText: its argument and its result
  jira,          \* one call of JiraClient.transitionIssue, and the issue
  db,            \* the last call of Database.insert: its draft and its result
  search,        \* one call of JiraClient.searchAssignedIssues
  git,           \* the working directories with their content, and the last GitService call
  listing,       \* one run of the list subcommand: its options and what it displays
  boot           \* history: starts of the process after the first, and the
                 \* rows that were active at the last of them

vars == <<repositoryUrl, tasks, queue, dirs, pollPc, pollIssues, pollTask,
          lastCycle, cycles, skipped, wpc, wtask, wf, enq, runs,
          session, adf, jira, db, search,
          git,
          listing,
          boot>>

\* what no step of the poller and of the workers changes: the configuration,
\* and the invocation of runTask and the calls of adfToText, of
\* transitionIssue and of the task store that are followed step by step in
\* specifications of their own
restVars == <<repositoryUrl, session, adf, jira, db, search, git, listing, boot>>

pollVars == <<pollPc, pollIssues, pollTask, lastCycle, cycles, skipped>>

workerVars == <<wpc, wtask, wf, runs>>

\* cause: what the workflow is failing with ("none", typed "fail", defect
\* "die"); comp: compensation finalizer registered in the workflow scope;
\* step: number of the step whose error escaped (0: none); calls: the
\* db.updateStatus calls in call order, each with the status passed and
\* whether the write succeeded; sub: swallowed sub-failures of finalize;
\* compRan: the compensation finalizer has run; comments: the comments the
\* workflow has posted to the tracker
NoWorkflow == [cause |-> "none", comp |-> FALSE, step |-> 0, calls |-> <<>>,
               sub |-> {}, compRan |-> FALSE, comments |-> <<>>]

\* runTask not invoked: pc is the position in runTask; started: the retry
\* schedule has taken its first step; elapsed: seconds since that step;
\* error: the error the polling last failed with; last: what the last
\* session.status call answered; finalChecks: session.status calls made by
\* the final check; result: how runTask ended
NoSession == [pc |-> "none", started |-> FALSE, elapsed |-> 0,
              error |-> "none", last |-> "none", gaveUp |-> FALSE,
              finalChecks |-> 0, result |-> "none"]

\* adfToText not called: doc is the argument (isDoc: it is an object with a
\* content array), text the string returned
NoConversion == [pc |-> "none", doc |-> [isDoc |-> FALSE, content |-> <<>>],
                 text |-> <<>>]

\* transitionIssue not called: statusName and transitions are the status
\* name requested and the transitions the tracker offers for the issue;
\* issueStatus is the status of the issue; posts are the transition ids
\* POSTed; result is how the call ended
NoTransition == [pc |-> "none", statusName |-> "", transitions |-> <<>>,
                 issueStatus |-> "To Do", posts |-> <<>>, result |-> "none"]

\* Database.insert not called: draft and returned are the argument and the
\* result of the last insert; clock is CURRENT_TIMESTAMP, in seconds;
\* createdAt and updatedAt are the created_at and updated_at columns, by row;
\* call is the last call with its arguments, old the status its row had, found
\* what the last findActiveByJiraId returned
NoInsert == [draft |-> <<>>, returned |-> <<>>, clock |-> 0, createdAt |-> <<>>,
             updatedAt |-> <<>>, call |-> <<>>, old |-> <<>>, found |-> <<>>]

\* the list subcommand not run: status and limit are its options, tasks the
\* rows fetched, displayTasks the rows printed
NoListing == [pc |-> "none", status |-> <<>>, limit |-> 0, tasks |-> <<>>,
              displayTasks |-> <<>>]

\* no GitService call made: fs maps each working directory to its content;
\* op, ran and error describe the last call: the method, the git commands it
\* ran, whether it failed with a GitError (for the CloneRepository activity,
\* result is the phase it failed in, or "ok"); found: what the activity
\* found at its directory when it started
NoGit == [fs |-> <<>>, op |-> "none", args |-> <<>>, found |-> <<>>, ran |-> <<>>,
          error |-> FALSE, result |-> "none"]

\* searchAssignedIssues not called: pages are the responses the tracker gives
\* to the successive page requests; requests: page requests sent; outcome:
\* how the last of them went; nextPageToken and allIssues are the locals of
\* searchIssues; result and returned: how the call ended and the list it
\* returned
NoSearch == [pc |-> "none", pages |-> <<>>, requests |-> 0, outcome |-> "none",
             nextPageToken |-> "", allIssues |-> <<>>, result |-> "none",
             returned |-> <<>>]

\* the state after construction, config.repositoryUrl being one of urls
InitOrchestratorWith(urls) ==
  /\ repositoryUrl \in urls
  /\ boot = [restarts |-> 0, orphans |-> {}]
  /\ tasks = <<>>
  /\ queue = <<>>
  /\ dirs = {}
  /\ pollPc = "sleep"
  /\ pollIssues = <<>>
  /\ pollTask = None
  /\ lastCycle = "none"
  /\ cycles = 0
  /\ skipped = <<>>
  /\ wpc = [w \in Workers |-> "take"]
  /\ wtask = [w \in Workers |-> NoPayload]
  /\ wf = [w \in Workers |-> NoWorkflow]
  /\ enq = [t \in TaskIds |-> 0]
  /\ runs = [t \in TaskIds |-> [takes |-> 0, execs |-> 0]]

InitOrchestrator == InitOrchestratorWith(RepositoryUrls)

Init ==
  /\ InitOrchestrator
  /\ session = NoSession
  /\ adf = NoConversion
  /\ jira = NoTransition
  /\ db = NoInsert
  /\ listing = NoListing
  /\ git = NoGit
  /\ search = NoSearch

(***************************************************************************)
(* Poller (start.ts): pollCycle repeated on Schedule.spaced.               *)
(***************************************************************************)
\* position of the poller after the issue at the head has been dealt with
NextIssue(issues) == IF Tail(issues) = <<>> THEN "sleep" ELSE "find"

\* config.jiraStatus, the status the JQL of searchAssignedIssues filters on
jiraStatus == "To Do"

\* the issues whose reported status name is the one filtered on
MatchingIssues == {issue \in JiraIssue : issue.status = jiraStatus}

\* variant: the cycles are started by a timer that does not wait for the
\* running cycle
pollCycleStartOnTimer ==
  /\ pollPc' = "fetch"
  /\ cycles' = cycles + 1
  /\ lastCycle' = "running"
  /\ skipped' = <<>>
  /\ UNCHANGED <<pollIssues, pollTask>>
  /\ UNCHANGED <<restVars, tasks, queue, dirs, workerVars, enq>>

\* Effect.repeat(Schedule.spaced(interval)): pollCycle is run, and run again
\* once the interval has passed since the previous run completed
pollCycleStart ==
  /\ pollPc = "sleep"
  /\ pollPc' = "fetch"
  /\ cycles' = cycles + 1
  /\ lastCycle' = "running"
  /\ skipped' = <<>>
  /\ UNCHANGED <<pollIssues, pollTask>>
  /\ UNCHANGED <<restVars, tasks, queue, dirs, workerVars, enq>>

\* jiraClient.searchAssignedIssues() succeeds with a list of issues drawn
\* from a set of issues; maxRows bounds the rows of the run
pollCycleFetchFrom(found, maxRows) ==
  /\ pollPc = "fetch"
  /\ \E issues \in SeqUpTo(found, MaxIssues) :
       /\ Len(tasks) + Len(issues) <= maxRows
       /\ pollIssues' = issues
       /\ pollPc' = IF issues = <<>> THEN "sleep" ELSE "find"
       /\ lastCycle' = IF issues = <<>> THEN "ok" ELSE lastCycle
       /\ cycles' = IF issues = <<>> THEN cycles - 1 ELSE cycles
  /\ pollTask' = None
  /\ UNCHANGED <<skipped, restVars, tasks, queue, dirs, workerVars, enq>>

\* the search succeeds; the status names of the issues are whatever the
\* tracker reports
pollCycleFetch == pollCycleFetchFrom(JiraIssue, MaxTasks)

\* the search succeeds and every issue found reports the status filtered on
pollCycleFetchMatching == pollCycleFetchFrom(MatchingIssues, MaxTasks)

\* the same, in a run long enough to fill the queue
pollCycleFetchMany == pollCycleFetchFrom(MatchingIssues, MaxRows)

\* variant: the failure is not caught inside the repeated effect, so the
\* repetition ends with it
pollCycleFetchFailFatal ==
  /\ pollPc = "fetch"
  /\ pollPc' = "stopped"
  /\ lastCycle' = "error"
  /\ cycles' = cycles - 1
  /\ UNCHANGED <<pollIssues, pollTask, skipped>>
  /\ UNCHANGED <<restVars, tasks, queue, dirs, workerVars, enq>>

\* variant: the issues fetched before the failure are processed, so a task
\* is inserted and offered by the cycle that fails
pollCycleFetchFailPartial ==
  /\ pollPc = "fetch"
  /\ pollPc' = "sleep"
  /\ lastCycle' = "error"
  /\ cycles' = cycles - 1
  /\ Len(tasks) < MaxTasks
  /\ \E issue \in JiraIssue :
       LET rows == insert(tasks, TaskInsert(issue))
       IN  /\ tasks' = rows
           /\ queue' = Append(queue, rows[Len(rows)])
  /\ UNCHANGED <<pollIssues, pollTask, skipped>>
  /\ UNCHANGED <<restVars, dirs, workerVars, enq>>

\* jiraClient.searchAssignedIssues() fails: Effect.catchAll logs, the
\* schedule repeats
pollCycleFetchFail ==
  /\ pollPc = "fetch"
  /\ pollPc' = "sleep"
  /\ lastCycle' = "error"
  /\ cycles' = cycles - 1
  /\ UNCHANGED <<pollIssues, pollTask, skipped>>
  /\ UNCHANGED <<restVars, tasks, queue, dirs, workerVars, enq>>

\* variant: an item with an active task yields that task (Option.some)
\* instead of Option.none, so pollCycle offers it again
processJiraIssueFindExisting ==
  /\ pollPc = "find"
  /\ LET issue == Head(pollIssues)
         existingTask == findActiveByJiraId(tasks, issue.id)
     IN  IF IsSome(existingTask)
         THEN /\ pollTask' = existingTask
              /\ pollPc' = "offer"
              /\ skipped' = Append(skipped, issue)
         ELSE /\ pollPc' = "insert"
              /\ UNCHANGED <<pollTask, skipped>>
  /\ UNCHANGED <<pollIssues, lastCycle, cycles, restVars, tasks, queue, dirs, workerVars, enq>>

\* processJiraIssue up to the decision: findActiveByJiraId, skip when active
processJiraIssueFind ==
  /\ pollPc = "find"
  /\ LET issue == Head(pollIssues)
         existingTask == findActiveByJiraId(tasks, issue.id)
     IN  IF IsSome(existingTask)
         THEN /\ pollIssues' = Tail(pollIssues)
              /\ pollPc' = NextIssue(pollIssues)
              /\ lastCycle' = IF Tail(pollIssues) = <<>> THEN "ok" ELSE lastCycle
              /\ cycles' = IF Tail(pollIssues) = <<>> THEN cycles - 1 ELSE cycles
              /\ skipped' = Append(skipped, issue)
         ELSE /\ pollPc' = "insert"
              /\ UNCHANGED <<pollIssues, lastCycle, cycles, skipped>>
  /\ UNCHANGED <<pollTask, restVars, tasks, queue, dirs, workerVars, enq>>

\* processJiraIssue after the decision: db.insert of the new task
processJiraIssueInsert ==
  /\ pollPc = "insert"
  /\ LET issue == Head(pollIssues)
         rows == insert(tasks, TaskInsert(issue))
     IN  /\ tasks' = rows
         /\ pollTask' = Some(rows[Len(rows)])
  /\ pollPc' = "offer"
  /\ UNCHANGED <<pollIssues, lastCycle, cycles, skipped, restVars, queue, dirs, workerVars, enq>>

\* variant: the queue is unbounded, the offer never suspends
pollCycleOfferUnbounded ==
  /\ pollPc = "offer"
  /\ queue' = Append(queue, pollTask[1])
  /\ enq' = [enq EXCEPT ![pollTask[1].id] = @ + 1]
  /\ pollTask' = None
  /\ pollIssues' = Tail(pollIssues)
  /\ pollPc' = NextIssue(pollIssues)
  /\ lastCycle' = IF Tail(pollIssues) = <<>> THEN "ok" ELSE lastCycle
  /\ cycles' = IF Tail(pollIssues) = <<>> THEN cycles - 1 ELSE cycles
  /\ UNCHANGED <<skipped, restVars, tasks, dirs, workerVars>>

\* variant: the task is put at the front of the queue
pollCycleOfferFront ==
  /\ pollPc = "offer"
  /\ Len(queue) < QueueCapacity
  /\ queue' = <<pollTask[1]>> \o queue
  /\ enq' = [enq EXCEPT ![pollTask[1].id] = @ + 1]
  /\ pollTask' = None
  /\ pollIssues' = Tail(pollIssues)
  /\ pollPc' = NextIssue(pollIssues)
  /\ lastCycle' = IF Tail(pollIssues) = <<>> THEN "ok" ELSE lastCycle
  /\ cycles' = IF Tail(pollIssues) = <<>> THEN cycles - 1 ELSE cycles
  /\ UNCHANGED <<skipped, restVars, tasks, dirs, workerVars>>

\* Queue.offer(runnerQueue, task): suspends while the queue is full
pollCycleOffer ==
  /\ pollPc = "offer"
  /\ Len(queue) < QueueCapacity
  /\ queue' = Append(queue, pollTask[1])
  /\ enq' = [enq EXCEPT ![pollTask[1].id] = @ + 1]
  /\ pollTask' = None
  /\ pollIssues' = Tail(pollIssues)
  /\ pollPc' = NextIssue(pollIssues)
  /\ lastCycle' = IF Tail(pollIssues) = <<>> THEN "ok" ELSE lastCycle
  /\ cycles' = IF Tail(pollIssues) = <<>> THEN cycles - 1 ELSE cycles
  /\ UNCHANGED <<skipped, restVars, tasks, dirs, workerVars>>

(***************************************************************************)
(* Worker (start.ts workflowWorker) and the ProcessTask workflow           *)
(* (TaskWorkflow.ts TaskWorkflowLayer), one action per activity.           *)
(***************************************************************************)
\* variant: the worker takes the task offered last
workflowWorkerTakeLast(w) ==
  /\ wpc[w] = "take"
  /\ queue # <<>>
  /\ LET task == queue[Len(queue)]
     IN  /\ wtask' = [wtask EXCEPT ![w] = Payload(task)]
         /\ runs' = [runs EXCEPT ![task.id].takes = @ + 1]
  /\ queue' = SubSeq(queue, 1, Len(queue) - 1)
  /\ wpc' = [wpc EXCEPT ![w] = "execute"]
  /\ UNCHANGED <<restVars, tasks, dirs, pollVars, wf, enq>>

\* variant: the worker reads the head of the queue without removing it
workflowWorkerPeek(w) ==
  /\ wpc[w] = "take"
  /\ queue # <<>>
  /\ LET task == Head(queue)
     IN  /\ wtask' = [wtask EXCEPT ![w] = Payload(task)]
         /\ runs' = [runs EXCEPT ![task.id].takes = @ + 1]
  /\ wpc' = [wpc EXCEPT ![w] = "execute"]
  /\ UNCHANGED <<restVars, tasks, queue, dirs, pollVars, wf, enq>>

\* Queue.take(queue): suspends while the queue is empty
workflowWorkerTake(w) ==
  /\ wpc[w] = "take"
  /\ queue # <<>>
  /\ LET task == Head(queue)
     IN  /\ wtask' = [wtask EXCEPT ![w] = Payload(task)]
         /\ runs' = [runs EXCEPT ![task.id].takes = @ + 1]
  /\ queue' = Tail(queue)
  /\ wpc' = [wpc EXCEPT ![w] = "execute"]
  /\ UNCHANGED <<restVars, tasks, dirs, pollVars, wf, enq>>

\* the workflow fails at a step with a cause: control goes to tapErrorCause
Escape(w, step, cause) ==
  /\ wf' = [wf EXCEPT ![w].cause = cause, ![w].step = step]
  /\ wpc' = [wpc EXCEPT ![w] = "handler"]

\* TaskWorkflow.execute starts the workflow; activity UpdateStatusToInProgress.
\* db.updateStatus is Effect.sync: a failing write is a defect
UpdateStatusToInProgress(w) ==
  /\ wpc[w] = "execute"
  /\ \E ok \in BOOLEAN :
       LET t == wtask[w].taskId
       IN  /\ runs' = [runs EXCEPT ![t].execs = @ + 1]
           /\ tasks' = IF ok THEN updateStatus(tasks, t, "IN_PROGRESS") ELSE tasks
           /\ wf' = [wf EXCEPT ![w].calls = Append(@, [status |-> "IN_PROGRESS", ok |-> ok]),
                               ![w].cause = EffectSync(ok),
                               ![w].step = IF EffectSync(ok) = "none" THEN 0 ELSE 1]
           /\ wpc' = [wpc EXCEPT ![w] = IF EffectSync(ok) = "none" THEN "clone" ELSE "handler"]
  /\ UNCHANGED <<restVars, queue, dirs, pollVars, wtask, enq>>

\* activity CloneRepository piped through TaskWorkflow.withCompensation
CloneRepositoryActivity(w) ==
  /\ wpc[w] = "clone"
  /\ \E outcome \in CloneOutcomes :
       LET t == wtask[w].taskId
       IN  /\ dirs' = CloneRepository(dirs, tempDir(t), outcome)
           /\ wf' = [wf EXCEPT ![w].comp = withCompensation(outcome),
                               ![w].cause = IF outcome = "ok" THEN "none" ELSE "fail",
                               ![w].step = IF outcome = "ok" THEN 0 ELSE 2]
           /\ wpc' = [wpc EXCEPT ![w] = IF outcome = "ok" THEN "comments" ELSE "handler"]
  /\ UNCHANGED <<restVars, tasks, queue, pollVars, wtask, enq, runs>>

\* activity FetchJiraComments
FetchJiraComments(w) ==
  /\ wpc[w] = "comments"
  /\ \E ok \in BOOLEAN :
       IF ok THEN wpc' = [wpc EXCEPT ![w] = "opencode"] /\ UNCHANGED wf
       ELSE Escape(w, 3, "fail")
  /\ UNCHANGED <<restVars, tasks, queue, dirs, pollVars, wtask, enq, runs>>

\* outcomes of openCodeClient.runTask: the session went idle, a call failed,
\* or the polling gave up and the final check was not idle
RunTaskOutcomes == {"idle", "error", "timeout"}

\* activity RunOpenCode (step 4 is the pure prompt construction)
RunOpenCode(w) ==
  /\ wpc[w] = "opencode"
  /\ \E outcome \in RunTaskOutcomes :
       IF outcome = "idle" THEN wpc' = [wpc EXCEPT ![w] = "finalize"] /\ UNCHANGED wf
       ELSE Escape(w, 5, "fail")
  /\ UNCHANGED <<restVars, tasks, queue, dirs, pollVars, wtask, enq, runs>>

\* activity UpdateStatusToDone: transition (ignored), PR URL construction and
\* comment (ignored together),
\* db.updateStatus(DONE), rm -rf of the working directory; on success the
\* workflow returns and its scope closes with a success exit
UpdateStatusToDone(w) ==
  /\ wpc[w] = "finalize"
  /\ \E trOk, cmOk, dbOk \in BOOLEAN :
       LET t == wtask[w].taskId
           prUrl == getBitbucketPrUrl(repositoryUrl,
                                      branchName(wtask[w].jiraKey, t), baseBranch)
           prOk == IsSome(prUrl)
           trCause == EffectIgnore(IF trOk THEN "none" ELSE "fail")
           prRan == trCause = "none"
           prCause == IF ~prRan THEN "none"
                      ELSE EffectIgnore(IF prOk /\ cmOk THEN "none" ELSE "fail")
           dbRan == prRan /\ prCause = "none"
           cause == IF trCause # "none" THEN trCause
                    ELSE IF prCause # "none" THEN prCause
                    ELSE EffectSync(dbOk)
           sub == (IF trOk THEN {} ELSE {"transition"})
                  \cup (IF prRan /\ ~prOk THEN {"pr-url"} ELSE {})
                  \cup (IF prRan /\ prOk /\ ~cmOk THEN {"pr-comment"} ELSE {})
       IN  /\ wf' = [wf EXCEPT ![w].sub = sub,
                               ![w].comments =
                                 IF prRan /\ prOk /\ cmOk
                                 THEN Append(@, PullRequestComment(wtask[w].jiraKey, prUrl[1]))
                                 ELSE @,
                               ![w].calls = IF dbRan THEN Append(@, [status |-> "DONE", ok |-> dbOk])
                                            ELSE @,
                               ![w].cause = cause,
                               ![w].step = IF cause = "none" THEN 0 ELSE 6]
           /\ tasks' = IF dbRan /\ dbOk THEN updateStatus(tasks, t, "DONE") ELSE tasks
           /\ dirs' = IF cause = "none" THEN RmRf(dirs, tempDir(t)) ELSE dirs
           /\ wpc' = [wpc EXCEPT ![w] = IF cause = "none" THEN "log" ELSE "handler"]
  /\ UNCHANGED <<restVars, queue, pollVars, wtask, enq, runs>>

\* Effect.tapErrorCause of the workflow: db.updateStatus(FAILED) piped through
\* Effect.ignore (a failing write is a defect and is not swallowed); then the
\* workflow scope closes with a failure exit and a registered compensation
\* finalizer runs
FailureHandler(w) ==
  /\ wpc[w] = "handler"
  /\ \E ok \in BOOLEAN :
       LET t == wtask[w].taskId
           tapCause == EffectIgnore(EffectSync(ok))
       IN  /\ tasks' = IF ok THEN updateStatus(tasks, t, "FAILED") ELSE tasks
           /\ dirs' = IF wf[w].comp THEN RmRf(dirs, tempDir(t)) ELSE dirs
           /\ wf' = [wf EXCEPT ![w].calls = Append(@, [status |-> "FAILED", ok |-> ok]),
                               ![w].cause = tapErrorCause(@, tapCause),
                               ![w].compRan = wf[w].comp]
  /\ wpc' = [wpc EXCEPT ![w] = "log"]
  /\ UNCHANGED <<restVars, queue, pollVars, wtask, enq, runs>>

\* Effect.tap / Effect.catchAllCause of the worker, then the next iteration
\* of while (true)
workflowWorkerLog(w) ==
  /\ wpc[w] = "log"
  /\ wpc' = [wpc EXCEPT ![w] = IF catchAllCause(wf[w].cause) THEN "take" ELSE "exited"]
  /\ wtask' = [wtask EXCEPT ![w] = NoPayload]
  /\ wf' = [wf EXCEPT ![w] = NoWorkflow]
  /\ UNCHANGED <<restVars, tasks, queue, dirs, pollVars, enq, runs>>

Next ==
  \/ pollCycleStart
  \/ pollCycleFetch
  \/ pollCycleFetchFail
  \/ processJiraIssueFind
  \/ processJiraIssueInsert
  \/ pollCycleOffer
  \/ \E w \in Workers : workflowWorkerTake(w)
  \/ \E w \in Workers : UpdateStatusToInProgress(w)
  \/ \E w \in Workers : CloneRepositoryActivity(w)
  \/ \E w \in Workers : FetchJiraComments(w)
  \/ \E w \in Workers : RunOpenCode(w)
  \/ \E w \in Workers : UpdateStatusToDone(w)
  \/ \E w \in Workers : FailureHandler(w)
  \/ \E w \in Workers : workflowWorkerLog(w)

Spec == Init /\ [][Next]_vars

\* the state after construction of the process configured with the SSH URL
\* of a Bitbucket repository
InitBitbucket ==
  /\ Init
  /\ repositoryUrl = <<"git@bitbucket.org:", "ws", "/", "repo", ".git">>

\* the steps of worker fiber w
WorkerNext(w) ==
  \/ workflowWorkerTake(w)
  \/ UpdateStatusToInProgress(w)
  \/ CloneRepositoryActivity(w)
  \/ FetchJiraComments(w)
  \/ RunOpenCode(w)
  \/ UpdateStatusToDone(w)
  \/ FailureHandler(w)
  \/ workflowWorkerLog(w)

\* the program with a tracker that only reports issues in the status
\* filtered on
NextMatching ==
  \/ pollCycleStart
  \/ pollCycleFetchMatching
  \/ pollCycleFetchFail
  \/ processJiraIssueFind
  \/ processJiraIssueInsert
  \/ pollCycleOffer
  \/ \E w \in Workers : workflowWorkerTake(w)
  \/ \E w \in Workers : UpdateStatusToInProgress(w)
  \/ \E w \in Workers : CloneRepositoryActivity(w)
  \/ \E w \in Workers : FetchJiraComments(w)
  \/ \E w \in Workers : RunOpenCode(w)
  \/ \E w \in Workers : UpdateStatusToDone(w)
  \/ \E w \in Workers : FailureHandler(w)
  \/ \E w \in Workers : workflowWorkerLog(w)

\* the same program in a run long enough to fill the queue
NextMany ==
  \/ pollCycleStart
  \/ pollCycleFetchMany
  \/ pollCycleFetchFail
  \/ processJiraIssueFind
  \/ processJiraIssueInsert
  \/ pollCycleOffer
  \/ \E w \in Workers : workflowWorkerTake(w)
  \/ \E w \in Workers : UpdateStatusToInProgress(w)
  \/ \E w \in Workers : CloneRepositoryActivity(w)
  \/ \E w \in Workers : FetchJiraComments(w)
  \/ \E w \in Workers : RunOpenCode(w)
  \/ \E w \in Workers : UpdateStatusToDone(w)
  \/ \E w \in Workers : FailureHandler(w)
  \/ \E w \in Workers : workflowWorkerLog(w)

QueueSpec == InitBitbucket /\ [][NextMany]_vars

\* that program under fair scheduling: the runtime keeps scheduling the forked
\* worker fibers and every external call of an activity returns, so a step of
\* the worker pool that stays possible is eventually taken
FairSpec ==
  Init /\ [][NextMatching]_vars /\ WF_vars(\E w \in Workers : WorkerNext(w))

\* the program (tracker reporting the status filtered on) with the schedule
\* of the polling fiber running: the interval always elapses
FairPollSpec == Init /\ [][NextMatching]_vars /\ WF_vars(pollCycleStart)

\* the steps of the polling fiber while the tracker answers
PollerNext ==
  \/ pollCycleStart
  \/ pollCycleFetchMatching
  \/ processJiraIssueFind
  \/ processJiraIssueInsert
  \/ pollCycleOffer

\* the program under fair scheduling of the polling fiber and of the worker
\* fibers, every external call returning with success or with a failure
ProgressSpec ==
  /\ InitBitbucket
  /\ [][NextMatching]_vars
  /\ WF_vars(PollerNext)
  /\ WF_vars(\E w \in Workers : WorkerNext(w))

\* the step of worker w is one in which every external call made (store
\* write, git command, tracker request, agent run) succeeded
CallsSucceed(w) ==
  /\ wf'[w].cause = "none"
  /\ wf'[w].sub \cap {"transition", "pr-comment"} = {}

\* the program in an environment where every external call succeeds
SuccessNext ==
  \/ pollCycleStart
  \/ pollCycleFetchMatching
  \/ processJiraIssueFind
  \/ processJiraIssueInsert
  \/ pollCycleOffer
  \/ \E w \in Workers : workflowWorkerTake(w)
  \/ \E w \in Workers : UpdateStatusToInProgress(w) /\ CallsSucceed(w)
  \/ \E w \in Workers : CloneRepositoryActivity(w) /\ CallsSucceed(w)
  \/ \E w \in Workers : FetchJiraComments(w) /\ CallsSucceed(w)
  \/ \E w \in Workers : RunOpenCode(w) /\ CallsSucceed(w)
  \/ \E w \in Workers : UpdateStatusToDone(w) /\ CallsSucceed(w)
  \/ \E w \in Workers : workflowWorkerLog(w)

\* that program under fair scheduling of the polling fiber and of the worker
\* fibers
SuccessSpec ==
  /\ Init
  /\ [][SuccessNext]_vars
  /\ WF_vars(PollerNext)
  /\ WF_vars(\E w \in Workers : WorkerNext(w) /\ CallsSucceed(w))

(***************************************************************************)
(* Restart of the process: the table and the directories are on disk, the  *)
(* queue, the fibers and the workflow engine (layerMemory) are not.        *)
(***************************************************************************)
\* what startHandler builds: an empty queue, the workers at Queue.take, the
\* polling fiber before its first cycle
Started ==
  /\ queue' = <<>>
  /\ pollPc' = "sleep"
  /\ pollIssues' = <<>>
  /\ pollTask' = None
  /\ lastCycle' = "none"
  /\ cycles' = 0
  /\ skipped' = <<>>
  /\ wpc' = [w \in Workers |-> "take"]
  /\ wtask' = [w \in Workers |-> NoPayload]
  /\ wf' = [w \in Workers |-> NoWorkflow]

\* variant: startHandler begins with a sweep that sets the active rows to
\* FAILED
ProcessRestartWithSweep ==
  /\ boot.restarts < MaxRestarts
  /\ LET active == {t \in DOMAIN tasks : tasks[t].status \in ACTIVE_STATUSES}
     IN  /\ boot' = [restarts |-> boot.restarts + 1, orphans |-> active]
         /\ tasks' = [t \in DOMAIN tasks |->
                        IF t \in active THEN [tasks[t] EXCEPT !.status = "FAILED"]
                        ELSE tasks[t]]
  /\ Started
  /\ UNCHANGED <<repositoryUrl, listing, git, search, dirs, enq, runs, session, adf, jira, db>>

\* the process ends at any point and startHandler runs again on the same
\* table
ProcessRestart ==
  /\ boot.restarts < MaxRestarts
  /\ boot' = [restarts |-> boot.restarts + 1,
              orphans |-> {t \in DOMAIN tasks : tasks[t].status \in ACTIVE_STATUSES}]
  /\ Started
  /\ UNCHANGED <<repositoryUrl, listing, git, search, tasks, dirs, enq, runs, session, adf, jira, db>>

NextRestart ==
  \/ NextMatching
  \/ ProcessRestart

\* the program with restarts of the process
RestartSpec == Init /\ [][NextRestart]_vars

(***************************************************************************)
(* OpenCodeClient.runTask: create a session, send the prompt, poll the     *)
(* session status until idle, with one final check when polling gives up.  *)
(* Time is counted in seconds.                                             *)
(***************************************************************************)
\* Duration.seconds(2), in seconds
POLL_INTERVAL == 2

\* Duration.minutes(30), in seconds
MAX_POLL_DURATION == 1800

\* longest time one session.status call takes, in seconds
MaxCallSeconds == 1

\* what client.session.status answers: the promise rejects ("throw"), the
\* result carries an error, the session is absent from the statuses, or it is
\* there with type idle, busy or retry
StatusReplies == {"throw", "error", "missing", "idle", "busy", "retry"}

\* pollStatus: "idle", or the message of the OpenCodeError it fails with
pollStatus(reply) ==
  CASE reply \in {"throw", "error"} -> "Failed to get session status"
    [] reply \in {"missing", "idle"} -> "idle"
    [] OTHER -> IF reply = "busy" THEN "Session still busy" ELSE "Session still retry"

\* Schedule.upTo(MAX_POLL_DURATION): recur while the time elapsed is less
recurUpTo(elapsed) == elapsed < MAX_POLL_DURATION

\* variant: the final check treats an absent session like pollStatus does
finalCheckAbsentIdle(reply, error) ==
  CASE reply = "throw" -> "Failed to get final session status"
    [] reply \in {"missing", "idle"} -> "idle"
    [] OTHER -> error

\* the final check of the catchAll handler, error being what polling failed
\* with: "idle", or the message of the error runTask fails with
finalCheck(reply, error) ==
  CASE reply = "throw" -> "Failed to get final session status"
    [] reply = "idle" -> "idle"
    [] OTHER -> error

orchestratorVars == <<tasks, queue, dirs, pollVars, workerVars, enq>>

InitRunTask ==
  /\ InitOrchestrator
  /\ session = [NoSession EXCEPT !.pc = "create"]
  /\ adf = NoConversion
  /\ jira = NoTransition
  /\ db = NoInsert
  /\ listing = NoListing
  /\ git = NoGit
  /\ search = NoSearch

\* runTask ends: with "idle" it returns, with anything else it fails
RunTaskEnds(outcome) ==
  session' = [session EXCEPT !.pc = "done",
                             !.result = IF outcome = "idle" THEN "idle" ELSE "fail",
                             !.error = IF outcome = "idle" THEN @ ELSE outcome]

\* client.session.create
sessionCreate ==
  /\ session.pc = "create"
  /\ \E ok \in BOOLEAN :
       IF ok THEN session' = [session EXCEPT !.pc = "prompt"]
       ELSE RunTaskEnds("Failed to create OpenCode session")
  /\ UNCHANGED <<repositoryUrl, listing, git, search, boot, orchestratorVars, adf, jira, db>>

\* client.session.prompt
sessionPrompt ==
  /\ session.pc = "prompt"
  /\ \E ok \in BOOLEAN :
       IF ok THEN session' = [session EXCEPT !.pc = "poll"]
       ELSE RunTaskEnds("Failed to run OpenCode prompt")
  /\ UNCHANGED <<repositoryUrl, listing, git, search, boot, orchestratorVars, adf, jira, db>>

\* one run of pollStatus under Effect.retry(schedule): the call takes d
\* seconds; on failure the schedule either sleeps POLL_INTERVAL before the
\* next run or, the time being up, lets the error through to the handler
pollStatusRetry ==
  /\ session.pc = "poll"
  /\ \E reply \in StatusReplies, d \in 0..MaxCallSeconds :
       LET outcome == pollStatus(reply)
           now == IF session.started THEN session.elapsed + d ELSE 0
           polled == [session EXCEPT !.last = reply]
       IN IF outcome = "idle"
          THEN session' = [polled EXCEPT !.pc = "done", !.result = "idle"]
          ELSE IF recurUpTo(now)
               THEN session' = [polled EXCEPT !.started = TRUE,
                                              !.elapsed = now + POLL_INTERVAL,
                                              !.error = outcome]
               ELSE session' = [polled EXCEPT !.pc = "final",
                                              !.elapsed = now,
                                              !.gaveUp = TRUE,
                                              !.error = outcome]
  /\ UNCHANGED <<repositoryUrl, listing, git, search, boot, orchestratorVars, adf, jira, db>>

\* the handler without its final check
finalStatusCheckSkipped ==
  /\ session.pc = "final"
  /\ RunTaskEnds(session.error)
  /\ UNCHANGED <<repositoryUrl, listing, git, search, boot, orchestratorVars, adf, jira, db>>

\* Effect.catchAll handler: one more session.status call
finalStatusCheck ==
  /\ session.pc = "final"
  /\ \E reply \in StatusReplies :
       LET checked == [session EXCEPT !.last = reply, !.finalChecks = @ + 1]
           outcome == finalCheck(reply, session.error)
       IN session' = [checked EXCEPT !.pc = "done",
                                     !.result = IF outcome = "idle" THEN "idle" ELSE "fail",
                                     !.error = IF outcome = "idle" THEN @ ELSE outcome]
  /\ UNCHANGED <<repositoryUrl, listing, git, search, boot, orchestratorVars, adf, jira, db>>

RunTaskNext ==
  \/ sessionCreate
  \/ sessionPrompt
  \/ pollStatusRetry
  \/ finalStatusCheck

\* one invocation of runTask
RunTaskSpec == InitRunTask /\ [][RunTaskNext]_vars

(***************************************************************************)
(* adfToText: Atlassian Document Format to plain text.  A string is the    *)
(* sequence of its pieces, a piece being a word or one whitespace          *)
(* character.                                                              *)
(***************************************************************************)
\* blocks in the content of a document
MaxBlocks == 2

\* nodes in the content of a block
MaxChildren == 1

Whitespace == {" ", "\n"}

\* the text of a text node (the empty string is falsy)
Texts == {<<>>, <<"Hello">>, <<"World">>, <<" ">>}

BlockTypes == {"paragraph", "heading", "bulletList", "orderedList", "codeBlock"}

\* a node without content has content <<>>
TextNodes == {[type |-> "text", text |-> t, content |-> <<>>] : t \in Texts}

BlockNodes ==
  {[type |-> ty, text |-> <<>>, content |-> c] :
     ty \in BlockTypes, c \in SeqUpTo(TextNodes, MaxChildren)}

\* a list of one item holding one paragraph
ListNodes ==
  {[type |-> ty, text |-> <<>>,
    content |-> <<[type |-> "listItem", text |-> <<>>,
                   content |-> <<[type |-> "paragraph", text |-> <<>>,
                                  content |-> <<n>>]>>]>>] :
     ty \in {"bulletList", "orderedList"}, n \in TextNodes}

\* arguments of adfToText: a value that is no document, or a document
AdfDocuments ==
  {[isDoc |-> FALSE, content |-> <<>>]}
    \cup {[isDoc |-> TRUE, content |-> c] :
            c \in SeqUpTo(TextNodes \cup BlockNodes \cup ListNodes, MaxBlocks)}

RECURSIVE JoinRun(_, _)
\* Array.prototype.join(""), run together without a separator
JoinRun(strs, sep) ==
  IF strs = <<>> THEN <<>> ELSE Head(strs) \o JoinRun(Tail(strs), sep)

RECURSIVE Join(_, _)
\* Array.prototype.join(sep)
Join(strs, sep) ==
  IF strs = <<>> THEN <<>>
  ELSE IF Tail(strs) = <<>> THEN Head(strs)
  ELSE Head(strs) \o sep \o Join(Tail(strs), sep)

RECURSIVE TrimStart(_)
TrimStart(str) ==
  IF str # <<>> /\ Head(str) \in Whitespace THEN TrimStart(Tail(str)) ELSE str

RECURSIVE TrimEnd(_)
TrimEnd(str) ==
  IF str # <<>> /\ str[Len(str)] \in Whitespace
  THEN TrimEnd(SubSeq(str, 1, Len(str) - 1)) ELSE str

\* String.prototype.trim
Trim(str) == TrimEnd(TrimStart(str))

RECURSIVE extractText(_)
extractText(node) ==
  IF node.type = "text" /\ node.text # <<>> THEN node.text
  ELSE IF node.content # <<>>
       THEN Join([i \in DOMAIN node.content |-> extractText(node.content[i])], <<>>)
       ELSE <<>>

\* the string a top-level block contributes
BlockText(block) ==
  IF block.type \in {"paragraph", "heading", "bulletList", "orderedList"}
  THEN extractText(block) \o <<"\n">>
  ELSE extractText(block)

adfToText(doc) ==
  IF ~doc.isDoc THEN <<>>
  ELSE Trim(Join([i \in DOMAIN doc.content |-> BlockText(doc.content[i])], <<"\n">>))

InitAdf ==
  /\ InitOrchestrator
  /\ session = NoSession
  /\ adf \in {[pc |-> "call", doc |-> d, text |-> <<>>] : d \in AdfDocuments}
  /\ jira = NoTransition
  /\ db = NoInsert
  /\ listing = NoListing
  /\ git = NoGit
  /\ search = NoSearch

\* the call of adfToText returns
adfToTextReturn ==
  /\ adf.pc = "call"
  /\ adf' = [adf EXCEPT !.pc = "returned", !.text = adfToText(adf.doc)]
  /\ UNCHANGED <<repositoryUrl, listing, git, search, boot, orchestratorVars, session, jira, db>>

\* one call of adfToText on any document
AdfSpec == InitAdf /\ [][adfToTextReturn]_vars

(***************************************************************************)
(* JiraClient.transitionIssue: GET the transitions of the issue, find the  *)
(* one named like the status, POST its id.                                 *)
(***************************************************************************)
\* transitions in one transitions response
MaxTransitions == 2

\* names of statuses and of transitions, in the spellings that occur
Names == {"Code Review", "code review", "CODE REVIEW", "Done", "Start Review"}

\* String.prototype.toLowerCase on those names
toLowerCase(name) ==
  CASE name \in {"Code Review", "code review", "CODE REVIEW"} -> "code review"
    [] name = "Done" -> "done"
    [] name = "Start Review" -> "start review"

\* transitions the tracker may offer: id, name and the status they lead to
Transitions ==
  {[id |-> "11", name |-> "Code Review", to |-> "Code Review"],
   [id |-> "12", name |-> "code review", to |-> "Code Review"],
   [id |-> "21", name |-> "Start Review", to |-> "Code Review"],
   [id |-> "31", name |-> "Done", to |-> "Done"]}

\* variant: a call without a match falls back on the first transition
findTransitionOrFirst(transitions, statusName) ==
  LET hits == {i \in DOMAIN transitions :
                 toLowerCase(transitions[i].name) = toLowerCase(statusName)}
  IN  IF hits = {}
      THEN IF transitions = <<>> THEN None ELSE Some(Head(transitions))
      ELSE Some(transitions[CHOOSE i \in hits : \A k \in hits : i <= k])

\* transitions.find((t) => t.name.toLowerCase() === statusName.toLowerCase())
findTransition(transitions, statusName) ==
  LET hits == {i \in DOMAIN transitions :
                 toLowerCase(transitions[i].name) = toLowerCase(statusName)}
  IN  IF hits = {} THEN None
      ELSE Some(transitions[CHOOSE i \in hits : \A k \in hits : i <= k])

InitTransition ==
  /\ InitOrchestrator
  /\ session = NoSession
  /\ adf = NoConversion
  /\ jira \in {[NoTransition EXCEPT !.pc = "get", !.statusName = n, !.transitions = ts] :
                 n \in {"Code Review", "CODE REVIEW", "Done"},
                 ts \in SeqUpTo(Transitions, MaxTransitions)}
  /\ db = NoInsert
  /\ listing = NoListing
  /\ git = NoGit
  /\ search = NoSearch

\* the GET of the transitions and the search for the transition: the request
\* fails, the response has a status of 400 or more, its body does not parse,
\* or it is the list of transitions
transitionIssueGet ==
  /\ jira.pc = "get"
  /\ \E response \in {"network", "http-error", "parse", "ok"} :
       IF response # "ok"
       THEN jira' = [jira EXCEPT !.pc = "done", !.result = "JiraClientError"]
       ELSE IF IsSome(findTransition(jira.transitions, jira.statusName))
            THEN jira' = [jira EXCEPT !.pc = "post"]
            ELSE jira' = [jira EXCEPT !.pc = "done", !.result = "JiraClientError"]
  /\ UNCHANGED <<repositoryUrl, listing, git, search, boot, orchestratorVars, session, adf, db>>

\* the POST of the transition id: the tracker makes the transition and
\* answers, refuses it with a status of 400 or more, or the request fails,
\* with the transition made or not
transitionIssuePost ==
  /\ jira.pc = "post"
  /\ LET transition == findTransition(jira.transitions, jira.statusName)[1]
         posted == [jira EXCEPT !.pc = "done", !.posts = Append(@, transition.id)]
     IN  \E response \in {"network", "http-error", "ok"}, made \in BOOLEAN :
           /\ response = "ok" => made
           /\ response = "http-error" => ~made
           /\ jira' = [posted EXCEPT
                         !.issueStatus = IF made THEN transition.to ELSE @,
                         !.result = IF response = "ok" THEN "ok" ELSE "JiraClientError"]
  /\ UNCHANGED <<repositoryUrl, listing, git, search, boot, orchestratorVars, session, adf, db>>

TransitionNext ==
  \/ transitionIssueGet
  \/ transitionIssuePost

\* one call of transitionIssue
TransitionSpec == InitTransition /\ [][TransitionNext]_vars

(***************************************************************************)
(* The task store on its own (Database.ts): insert, updateStatus and       *)
(* findActiveByJiraId called with any arguments, while time passes.        *)
(***************************************************************************)
\* issues the drafts are built from: two of the issues found in the status
\* searched for
DraftIssues == {issue \in MatchingIssues : issue.id # "10003"}

\* TaskInsert values: the fields of an issue with any TaskStatus
TaskInserts ==
  {[jiraId     |-> issue.id,
    jiraKey    |-> issue.key,
    jiraStatus |-> issue.status,
    status     |-> status,
    data       |-> JsonStringify(issue)] : issue \in DraftIssues, status \in TaskStatus}

\* variant: ORDER BY created_at ASC
FIND_OLDEST_ACTIVE_BY_JIRA_ID_SQL(rows, createdAt, jiraId) ==
  LET act == ActiveRows(rows, jiraId)
  IN  {rows[i] : i \in {i \in act : \A j \in act : createdAt[i] <= createdAt[j]}}

\* FIND_ACTIVE_BY_JIRA_ID_SQL on a table with its created_at column: the rows
\* that ORDER BY created_at DESC can put first, of which LIMIT 1 keeps one
\* (rows created in the same second are in no defined order)
FIND_ACTIVE_BY_JIRA_ID_SQL(rows, createdAt, jiraId) ==
  LET act == ActiveRows(rows, jiraId)
  IN  {rows[i] : i \in {i \in act : \A j \in act : createdAt[j] <= createdAt[i]}}

\* db.insert(task)
DatabaseInsert ==
  /\ Len(tasks) < MaxTasks
  /\ \E draft \in TaskInserts :
       LET rows == insert(tasks, draft)
       IN  /\ tasks' = rows
           /\ db' = [db EXCEPT !.draft = Some(draft),
                               !.returned = Some(rows[Len(rows)]),
                               !.createdAt = Append(@, db.clock),
                               !.updatedAt = Append(@, db.clock),
                               !.call = <<"insert">>,
                               !.old = None,
                               !.found = None]
  /\ UNCHANGED <<repositoryUrl, listing, git, search, boot, queue, dirs, pollVars, workerVars, enq, session, adf, jira>>

\* db.updateStatus(id, status)
DatabaseUpdateStatus ==
  /\ \E id \in TaskIds, status \in TaskStatus :
       /\ tasks' = updateStatus(tasks, id, status)
       /\ db' = [db EXCEPT !.updatedAt = [i \in DOMAIN @ |->
                                            IF tasks[i].id = id THEN db.clock ELSE @[i]],
                           !.call = <<"updateStatus", id, status>>,
                           !.old = IF id \in DOMAIN tasks THEN Some(tasks[id].status)
                                   ELSE None,
                           !.found = None]
  /\ UNCHANGED <<repositoryUrl, listing, git, search, boot, queue, dirs, pollVars, workerVars, enq, session, adf, jira>>

\* db.findActiveByJiraId(jiraId)
DatabaseFindActiveByJiraId ==
  /\ \E jiraId \in IssueIds :
       LET first == FIND_ACTIVE_BY_JIRA_ID_SQL(tasks, db.createdAt, jiraId)
       IN  \E row \in (IF first = {} THEN {None} ELSE {Some(r) : r \in first}) :
             db' = [db EXCEPT !.call = <<"findActiveByJiraId", jiraId>>,
                              !.old = None,
                              !.found = row]
  /\ UNCHANGED <<repositoryUrl, listing, git, search, boot, orchestratorVars, session, adf, jira>>

\* a second passes
DatabaseTick ==
  /\ db.clock < MaxClock
  /\ db' = [db EXCEPT !.clock = @ + 1]
  /\ UNCHANGED <<repositoryUrl, listing, git, search, boot, orchestratorVars, session, adf, jira>>

DatabaseNext ==
  \/ DatabaseInsert
  \/ DatabaseUpdateStatus
  \/ DatabaseFindActiveByJiraId
  \/ DatabaseTick

\* the task store under any sequence of calls
DatabaseSpec == Init /\ [][DatabaseNext]_vars

(***************************************************************************)
(* JiraClient.searchAssignedIssues: the pages of /search/jql are requested *)
(* one after the other and their issues collected.                         *)
(***************************************************************************)
\* issues a page may hold
PageIssues == {i \in JiraIssue : i.status = "To Do" /\ i.id # "10003"}

\* SearchResponse values: nextPageToken is optional and nullable (None: absent
\* or null), isLast is optional ("absent")
SearchResponses ==
  [issues : SeqUpTo(PageIssues, MaxPageIssues),
   nextPageToken : {None, Some(""), Some("token")},
   isLast : {"absent", "true", "false"}]

\* response.nextPageToken ?? ""
orEmpty(token) == IF IsSome(token) THEN token[1] ELSE ""

\* variant: the loop condition alone decides, isLast is not looked at
continueIgnoringIsLast(response) == orEmpty(response.nextPageToken) # ""

\* if (response.isLast === true) break; } while (nextPageToken): whether
\* another page is requested after this response
continue(response) ==
  /\ response.isLast # "true"
  /\ orEmpty(response.nextPageToken) # ""

\* the last page the tracker holds carries no token
InitSearch ==
  /\ InitOrchestrator
  /\ session = NoSession
  /\ adf = NoConversion
  /\ jira = NoTransition
  /\ db = NoInsert
  /\ listing = NoListing
  /\ git = NoGit
  /\ search \in {[NoSearch EXCEPT !.pc = "request", !.pages = ps] :
                   ps \in {qs \in SeqUpTo(SearchResponses, MaxPages) :
                             /\ qs # <<>>
                             /\ orEmpty(qs[Len(qs)].nextPageToken) = ""}}

\* how one page request can go: the transport fails, the status is >= 400,
\* the body is not JSON, the JSON is not a SearchResponse, or a page arrives
RequestOutcomes == {"transport", "status", "json", "decode", "ok"}

\* one iteration of the do-while loop of searchIssues
searchIssuesPage ==
  /\ search.pc = "request"
  /\ \E outcome \in RequestOutcomes :
       LET n == search.requests + 1
           response == search.pages[n]
           all == search.allIssues \o response.issues
       IN  IF outcome # "ok"
           THEN search' = [search EXCEPT !.pc = "done", !.requests = n,
                                         !.outcome = outcome,
                                         !.result = "JiraClientError"]
           ELSE IF continue(response)
           THEN search' = [search EXCEPT !.requests = n, !.outcome = outcome,
                                         !.allIssues = all,
                                         !.nextPageToken = orEmpty(response.nextPageToken)]
           ELSE search' = [search EXCEPT !.pc = "done", !.requests = n,
                                         !.outcome = outcome,
                                         !.allIssues = all,
                                         !.nextPageToken = orEmpty(response.nextPageToken),
                                         !.result = "ok",
                                         !.returned = Some(all)]
  /\ UNCHANGED <<repositoryUrl, listing, git, boot, orchestratorVars, session, adf, jira, db>>

\* one call of searchAssignedIssues against any tracker
SearchSpec == InitSearch /\ [][searchIssuesPage]_vars

(***************************************************************************)
(* GitService.clone and checkoutNewBranch, and the CloneRepository         *)
(* activity that calls them, on working directories with content.          *)
(***************************************************************************)
\* content of a path: kind is "absent", "empty" (an empty directory),
\* "files" (a directory with files that is no repository) or "repo"; branch
\* is the branch checked out; dirty: the tree has uncommitted changes
Absent == [kind |-> "absent", branch |-> <<>>, dirty |-> FALSE]

EmptyDir == [kind |-> "empty", branch |-> <<>>, dirty |-> FALSE]

\* what git clone creates: the repository on its default branch
FreshClone == [kind |-> "repo", branch |-> <<baseBranch>>, dirty |-> FALSE]

GitTaskIds == 1..MaxTasks

GitBranches == {<<baseBranch>>} \cup {branchName("PROJ-1", t) : t \in GitTaskIds}

\* what an earlier attempt can have left at a path
Contents ==
  {Absent, EmptyDir, [kind |-> "files", branch |-> <<>>, dirty |-> FALSE]}
    \cup [kind : {"repo"}, branch : GitBranches, dirty : BOOLEAN]

GitDirs == {tempDir(t) : t \in GitTaskIds}

\* variant: the arguments are not validated
isBlankUnchecked(str) == FALSE

\* !str || str.trim() === ""
isBlank(str) == str = <<>> \/ Trim(str) = <<>>

\* how the git process can go: it cannot be started, it exits with a status
\* other than zero, it exits with zero
GitRuns == {"spawn-error", "exit-nonzero", "exit-zero"}

\* runGitCommand fails only when the process cannot be started:
\* Command.string collects stdout and does not look at the exit status
runGitCommandFails(run) == run = "spawn-error"

\* content of a path, Absent for a path that is no working directory
ContentAt(fs, dir) == IF dir \in DOMAIN fs THEN fs[dir] ELSE Absent

\* gitService.clone(repoUrl, targetDir): git refuses a target that exists and
\* is not an empty directory
clone(fs, repoUrl, targetDir, run) ==
  IF isBlank(repoUrl) \/ isBlank(targetDir)
  THEN [fs |-> fs, ran |-> <<>>, error |-> TRUE]
  ELSE LET cmd == <<"clone", repoUrl, targetDir>>
           cloned == /\ run = "exit-zero"
                     /\ targetDir \in DOMAIN fs
                     /\ fs[targetDir].kind \in {"absent", "empty"}
       IN  [fs    |-> IF cloned THEN [fs EXCEPT ![targetDir] = FreshClone] ELSE fs,
            ran   |-> <<cmd>>,
            error |-> runGitCommandFails(run)]

\* gitService.checkoutNewBranch(workDir, branchName): the process cannot be
\* started in a directory that does not exist; git refuses outside a
\* repository and when the branch exists
checkoutNewBranch(fs, workDir, branch, run) ==
  IF isBlank(workDir) \/ isBlank(branch)
  THEN [fs |-> fs, ran |-> <<>>, error |-> TRUE]
  ELSE LET cmd == <<"checkout", "-b", branch>>
           here == ContentAt(fs, workDir)
           created == /\ run = "exit-zero"
                      /\ here.kind = "repo"
                      /\ here.branch # branch
       IN  [fs    |-> IF created THEN [fs EXCEPT ![workDir].branch = branch] ELSE fs,
            ran   |-> <<cmd>>,
            error |-> here.kind = "absent" \/ runGitCommandFails(run)]

\* variant: the directory is left as it is
RmRfTreeSkipped(fs, dir) == fs

\* Bun.spawnSync(["rm", "-rf", dir]) on directories with content
RmRfTree(fs, dir) == [fs EXCEPT ![dir] = Absent]

\* the execute effect of the CloneRepository activity: rm -rf, git clone,
\* test -d, git checkout -b
CloneRepositoryExecute(fs, url, dir, branch, cloneRun, checkoutRun) ==
  LET cleaned == RmRfTree(fs, dir)
      cloned == clone(cleaned, url, dir, cloneRun)
      dirExists == cloned.fs[dir].kind # "absent"
      checked == checkoutNewBranch(cloned.fs, dir, branch, checkoutRun)
  IN  IF cloned.error
      THEN [fs |-> cloned.fs, ran |-> cloned.ran, result |-> "clone"]
      ELSE IF ~dirExists
      THEN [fs |-> cloned.fs, ran |-> cloned.ran, result |-> "clone-verify"]
      ELSE [fs |-> checked.fs, ran |-> cloned.ran \o checked.ran,
            result |-> IF checked.error THEN "checkout" ELSE "ok"]

\* strings passed as repository URL, directory and branch name
GitUrlArgs == {<<>>, <<" ">>, <<" ", "\n">>} \cup RepositoryUrls

GitDirArgs == {<<>>, <<" ">>, <<"\n", " ">>} \cup GitDirs

GitBranchArgs == {<<>>, <<" ">>} \cup GitBranches

\* the directories hold whatever earlier attempts have left
InitGit ==
  /\ InitOrchestrator
  /\ session = NoSession
  /\ adf = NoConversion
  /\ jira = NoTransition
  /\ db = NoInsert
  /\ listing = NoListing
  /\ search = NoSearch
  /\ git \in {[NoGit EXCEPT !.fs = f] : f \in [GitDirs -> Contents]}

GitClone ==
  /\ \E repoUrl \in GitUrlArgs, targetDir \in GitDirArgs, run \in GitRuns :
       LET r == clone(git.fs, repoUrl, targetDir, run)
       IN  git' = [fs |-> r.fs, op |-> "clone", args |-> <<repoUrl, targetDir>>,
                   found |-> <<>>,
                   ran |-> r.ran, error |-> r.error,
                   result |-> IF r.error THEN "GitError" ELSE "ok"]
  /\ UNCHANGED <<repositoryUrl, listing, boot, orchestratorVars, session, adf, jira, db, search>>

GitCheckoutNewBranch ==
  /\ \E workDir \in GitDirArgs, branch \in GitBranchArgs, run \in GitRuns :
       LET r == checkoutNewBranch(git.fs, workDir, branch, run)
       IN  git' = [fs |-> r.fs, op |-> "checkoutNewBranch", args |-> <<workDir, branch>>,
                   found |-> <<>>,
                   ran |-> r.ran, error |-> r.error,
                   result |-> IF r.error THEN "GitError" ELSE "ok"]
  /\ UNCHANGED <<repositoryUrl, listing, boot, orchestratorVars, session, adf, jira, db, search>>

\* the CloneRepository activity of the workflow of task t
GitCloneRepository ==
  /\ \E t \in GitTaskIds, cloneRun \in GitRuns, checkoutRun \in GitRuns :
       LET r == CloneRepositoryExecute(git.fs, repositoryUrl, tempDir(t),
                                       branchName("PROJ-1", t), cloneRun, checkoutRun)
       IN  git' = [fs |-> r.fs, op |-> "CloneRepository",
                   args |-> <<t, cloneRun, checkoutRun>>,
                   found |-> <<git.fs[tempDir(t)]>>,
                   ran |-> r.ran, error |-> r.result # "ok", result |-> r.result]
  /\ UNCHANGED <<repositoryUrl, listing, boot, orchestratorVars, session, adf, jira, db, search>>

GitNext ==
  \/ GitClone
  \/ GitCheckoutNewBranch
  \/ GitCloneRepository

\* any sequence of GitService calls and CloneRepository executions
GitSpec == InitGit /\ [][GitNext]_vars

(***************************************************************************)
(* The list subcommand (list.ts listHandler) on the table the store holds. *)
(***************************************************************************)
\* FIND_BY_STATUS_SQL: the rows of a status, ORDER BY created_at ASC (ids
\* increase with created_at, so id order is such an order)
findByStatus(rows, status) == SelectSeq(rows, LAMBDA row : row.status = status)

\* FIND_ALL_SQL: all rows, ORDER BY created_at DESC; findAll takes no
\* argument and the statement has no LIMIT
findAll(rows) == [i \in 1..Len(rows) |-> rows[Len(rows) + 1 - i]]

\* Array.prototype.slice(0, end) for end >= 0
slice(array, end) == SubSeq(array, 1, IF end < Len(array) THEN end ELSE Len(array))

\* values of --status (absent, or a status) and of --limit
StatusOptions == {None} \cup {Some(status) : status \in TaskStatus}

LimitOptions == 0..MaxLimit

\* listHandler(options)
listHandler ==
  /\ listing.pc = "none"
  /\ \E status \in StatusOptions, limit \in LimitOptions :
       LET fetched == IF IsSome(status) THEN findByStatus(tasks, status[1])
                      ELSE findAll(tasks)
           displayTasks == IF IsSome(status) THEN slice(fetched, limit) ELSE fetched
       IN  listing' = [pc |-> "done", status |-> status, limit |-> limit,
                       tasks |-> fetched, displayTasks |-> displayTasks]
  /\ UNCHANGED <<repositoryUrl, boot, orchestratorVars, session, adf, jira, db, search, git>>

\* the table is filled and updated, then the list subcommand is run
ListNext ==
  \/ listing.pc = "none" /\ DatabaseInsert
  \/ listing.pc = "none" /\ DatabaseUpdateStatus
  \/ listHandler

ListSpec == Init /\ [][ListNext]_vars

(***************************************************************************)
(* The program configured with any remote URL.                             *)
(***************************************************************************)
InitRemote ==
  /\ InitOrchestratorWith(RemoteUrls)
  /\ session = NoSession
  /\ adf = NoConversion
  /\ jira = NoTransition
  /\ db = NoInsert
  /\ listing = NoListing
  /\ git = NoGit
  /\ search = NoSearch

RemoteSpec == InitRemote /\ [][NextMatching]_vars

(***************************************************************************)
(* Properties.                                                             *)
(***************************************************************************)
\* rows of a Jira id, and those of them that are WAITING_TO_WORK or IN_PROGRESS
RowsOf(j) == {i \in DOMAIN tasks : tasks[i].jiraId = j}

ActiveOf(j) ==
  {i \in RowsOf(j) : tasks[i].status = "WAITING_TO_WORK" \/ tasks[i].status = "IN_PROGRESS"}

\* the workflow held by worker w is the one of task id t
Holds(w, t) == wpc[w] # "take" /\ wtask[w].taskId = t

\* this step issues a db.updateStatus call for task id t
UpdateStatusCalled(t) ==
  \E w \in Workers : Holds(w, t) /\ Len(wf'[w].calls) > Len(wf[w].calls)

\* this step is a step of the polling fiber
PollerStep == <<pollPc, pollIssues, pollTask, lastCycle>>' # <<pollPc, pollIssues, pollTask, lastCycle>>

\* C1 (Invariant I1): in every reachable state, for each externalId at most
\* one task row has status WAITING_TO_WORK or IN_PROGRESS.
InvariantI1 == \A j \in IssueIds : Cardinality(ActiveOf(j)) <= 1

\* C1 witness: an item that already had a task was seen again, and it has two
\* rows of which exactly one is active.
WitnessI1 ==
  \E j \in IssueIds : Cardinality(RowsOf(j)) = 2 /\ Cardinality(ActiveOf(j)) = 1

\* the transitions Invariant I2 allows
I2Transitions ==
  {<<"WAITING_TO_WORK", "IN_PROGRESS">>, <<"IN_PROGRESS", "DONE">>,
   <<"IN_PROGRESS", "FAILED">>}

\* C2 as claimed (Invariant I2, transition relation): every change of a task's
\* status is WAITING_TO_WORK -> IN_PROGRESS, IN_PROGRESS -> DONE or
\* IN_PROGRESS -> FAILED, also on paths where a step fails.
I2TransitionsOnly ==
  [][\A i \in DOMAIN tasks :
       tasks'[i].status # tasks[i].status
         => <<tasks[i].status, tasks'[i].status>> \in I2Transitions]_vars

\* C2 amended: every change of a task's status is one of the three
\* transitions of I2, or WAITING_TO_WORK -> FAILED made by the failure handler
\* of a workflow whose step 1 (the IN_PROGRESS write) failed.
I2TransitionsOrFailedStart ==
  [][\A i \in DOMAIN tasks :
       tasks'[i].status # tasks[i].status
         => \/ <<tasks[i].status, tasks'[i].status>> \in I2Transitions
            \/ /\ tasks[i].status = "WAITING_TO_WORK"
               /\ tasks'[i].status = "FAILED"
               /\ \E w \in Workers :
                    Holds(w, i) /\ wpc[w] = "handler" /\ wf[w].step = 1]_vars

\* C2 witness: a workflow whose IN_PROGRESS write failed has ended and its
\* task is FAILED.
WitnessFailedStart ==
  \E w \in Workers :
    /\ wpc[w] = "log"
    /\ wf[w].step = 1
    /\ tasks[wtask[w].taskId].status = "FAILED"

\* C3 (Invariant I2, terminal states): once a task is DONE or FAILED its
\* status never changes and no db.updateStatus call is issued for its id.
TerminalIsFinal ==
  [][\A i \in DOMAIN tasks :
       tasks[i].status \in {"DONE", "FAILED"}
         => tasks'[i].status = tasks[i].status /\ ~UpdateStatusCalled(i)]_vars

\* C3 witness: a task is DONE, another is FAILED, and both workflows are over.
WitnessTerminal ==
  /\ \E i \in DOMAIN tasks : tasks[i].status = "DONE"
  /\ \E i \in DOMAIN tasks : tasks[i].status = "FAILED"
  /\ \A w \in Workers : wpc[w] = "take"

\* C4 (dedup rule): when the poller processes an item whose externalId has an
\* active task, it inserts nothing, enqueues nothing, leaves the table and the
\* queue unchanged and goes on to the next item, whatever the item's status.
DedupSkipsItem ==
  [][(/\ pollPc = "find"
      /\ ActiveOf(Head(pollIssues).id) # {}
      /\ PollerStep)
       => /\ tasks' = tasks
          /\ queue' = queue
          /\ enq' = enq
          /\ pollTask' = None
          /\ pollIssues' = Tail(pollIssues)
          /\ pollPc' \in {"find", "sleep"}]_vars

\* C4 witness: a cycle has skipped an item whose tracker status differs from
\* the status stored with its active task; one row, offered once.
WitnessDedup ==
  /\ Len(skipped) = 1
  /\ pollPc = "sleep"
  /\ Len(tasks) = 1
  /\ skipped[1].id = tasks[1].jiraId
  /\ skipped[1].status # tasks[1].jiraStatus
  /\ tasks[1].status = "IN_PROGRESS"
  /\ enq[1] = 1
  /\ lastCycle = "ok"

\* C5 (single ownership): every task is offered at most once, by the poller
\* right after its insert (a row not yet offered is the one the poller is
\* about to offer), taken at most once, executed at most once, and never held
\* by two workers.
SingleOwnership ==
  /\ \A t \in TaskIds :
       /\ enq[t] <= 1
       /\ runs[t].takes <= enq[t]
       /\ runs[t].execs <= runs[t].takes
       /\ enq[t] = 1 => t \in DOMAIN tasks
       /\ (t \in DOMAIN tasks /\ enq[t] = 0)
            => pollPc = "offer" /\ pollTask = Some(tasks[t])
       /\ Cardinality({w \in Workers : Holds(w, t)}) <= 1
       /\ Cardinality({k \in DOMAIN queue : queue[k].id = t}) <= 1 - runs[t].takes

\* C5 witness: two workers execute the workflows of two different tasks.
WitnessTwoOwners ==
  /\ Holds(1, 1) /\ Holds(2, 2)
  /\ wpc[1] = "opencode" /\ wpc[2] = "opencode"

\* the db.updateStatus calls of the workflow of worker w that passed status
CallsWith(w, status) == {k \in DOMAIN wf[w].calls : wf[w].calls[k].status = status}

\* the workflow executed by worker w has ended (scope closed, result delivered)
Ended(w) == wpc[w] = "log"

\* C6 as claimed: a workflow that fails during step 2 (workspace preparation)
\* leaves no working directory behind when it has ended, and the task ends
\* FAILED (the FAILED write being best-effort: when that write succeeded).
Step2FailureLeavesNoDirectory ==
  \A w \in Workers :
    (Ended(w) /\ wf[w].step = 2)
      => /\ tempDir(wtask[w].taskId) \notin dirs
         /\ (\A k \in CallsWith(w, "FAILED") : wf[w].calls[k].ok)
              => tasks[wtask[w].taskId].status = "FAILED"

\* C7: a workflow in which step 2 succeeded and step 3 or step 5 failed has
\* removed the working directory when it has ended.
LaterFailureRemovesDirectory ==
  \A w \in Workers :
    (Ended(w) /\ wf[w].step \in {3, 5})
      => tempDir(wtask[w].taskId) \notin dirs

\* C7 witness: a workflow failed at step 5, its compensation has run and the
\* directory cloned by step 2 is gone.
WitnessCompensated ==
  \E w \in Workers :
    /\ Ended(w)
    /\ wf[w].step = 5
    /\ wf[w].compRan
    /\ tempDir(wtask[w].taskId) \notin dirs

\* C8 (top-level failure handler): when a workflow from which an error
\* escaped has ended, exactly one db.updateStatus(FAILED) was attempted, as its
\* last store call; if that write succeeded the task is FAILED; and the worker
\* receives a failure.  A workflow from which nothing escaped attempted none.
FailureHandledOnce ==
  \A w \in Workers :
    Ended(w) =>
      LET failed == CallsWith(w, "FAILED")
          n == Len(wf[w].calls)
      IN  IF wf[w].step # 0
          THEN /\ failed = {n}
               /\ wf[w].calls[n].ok => tasks[wtask[w].taskId].status = "FAILED"
               /\ wf[w].cause # "none"
          ELSE failed = {} /\ wf[w].cause = "none"

\* C8 witness: a workflow failed at step 3, the handler wrote FAILED and the
\* typed failure reached the worker.
WitnessFailureHandled ==
  \E w \in Workers :
    /\ Ended(w)
    /\ wf[w].step = 3
    /\ wf[w].cause = "fail"
    /\ tasks[wtask[w].taskId].status = "FAILED"

\* C9: no worker ever exits, whatever the outcome of a workflow: after it the
\* worker is back at Queue.take, so all Concurrency workers stay alive, and
\* every task that is offered is eventually taken.
WorkersNeverExit ==
  /\ [](\A w \in Workers : wpc[w] # "exited")
  /\ [][\A w \in Workers : Ended(w) => wpc'[w] \in {"log", "take"}]_vars
  /\ \A t \in TaskIds : (enq[t] = 1) ~> (runs[t].takes = 1)

\* C9 witness: task 1 ended FAILED; task 2, for the same item and therefore
\* inserted and offered after that failure, has been taken by a worker.
WitnessWorkerContinues ==
  /\ Len(tasks) = 2
  /\ tasks[1].jiraId = tasks[2].jiraId
  /\ tasks[1].status = "FAILED"
  /\ runs[2].takes = 1
  /\ \E w \in Workers : Holds(w, 2)

\* C10 (best-effort finalize): when a workflow in which the tracker transition
\* and/or the PR comment failed has ended, db.updateStatus(DONE) was executed,
\* and unless that write itself failed the workflow succeeded and the task is
\* DONE.
FinalizeSubFailuresSwallowed ==
  \A w \in Workers :
    (Ended(w) /\ wf[w].sub # {})
      => /\ CallsWith(w, "DONE") # {}
         /\ (\A k \in CallsWith(w, "DONE") : wf[w].calls[k].ok)
              => /\ wf[w].cause = "none"
                 /\ wf[w].step = 0
                 /\ tasks[wtask[w].taskId].status = "DONE"

\* C10 witness: both the transition and the PR comment failed, the workflow
\* succeeded and the task is DONE.
WitnessSubFailures ==
  \E w \in Workers :
    /\ Ended(w)
    /\ wf[w].sub = {"transition", "pr-comment"}
    /\ wf[w].cause = "none"
    /\ tasks[wtask[w].taskId].status = "DONE"

\* C11: the db.updateStatus(DONE) write is not swallowed: when a workflow in
\* which that write failed has ended, it ended in failure at step 6, the
\* failure handler has run (its FAILED write was attempted) and the worker
\* received a failure; and a workflow that ended in success wrote DONE
\* successfully and its task is DONE.
DoneWriteNotSwallowed ==
  \A w \in Workers :
    Ended(w) =>
      /\ (\E k \in CallsWith(w, "DONE") : ~wf[w].calls[k].ok)
           => /\ wf[w].cause # "none"
              /\ wf[w].step = 6
              /\ CallsWith(w, "FAILED") # {}
      /\ wf[w].cause = "none"
           => /\ \E k \in CallsWith(w, "DONE") : wf[w].calls[k].ok
              /\ tasks[wtask[w].taskId].status = "DONE"

\* C11 witness: the DONE write failed, the handler wrote FAILED, and the
\* workflow ended with the defect.
WitnessDoneWriteFailed ==
  \E w \in Workers :
    /\ Ended(w)
    /\ wf[w].step = 6
    /\ wf[w].cause = "die"
    /\ \E k \in CallsWith(w, "DONE") : ~wf[w].calls[k].ok
    /\ \E k \in CallsWith(w, "FAILED") : wf[w].calls[k].ok
    /\ tasks[wtask[w].taskId].status = "FAILED"

\* the comment the workflow of worker w posts for its pull request
ExpectedComment(w) ==
  PullRequestComment(wtask[w].jiraKey,
    getBitbucketPrUrl(repositoryUrl,
                      branchName(wtask[w].jiraKey, wtask[w].taskId), baseBranch)[1])

\* the poller's insert step creates a WAITING_TO_WORK row for the item and goes
\* on to offer that row
InsertThenOffer ==
  (pollPc = "insert" /\ PollerStep)
    => /\ Len(tasks') = Len(tasks) + 1
       /\ tasks'[Len(tasks')].status = "WAITING_TO_WORK"
       /\ tasks'[Len(tasks')].jiraId = Head(pollIssues).id
       /\ pollPc' = "offer"
       /\ pollTask' = Some(tasks'[Len(tasks')])

\* task id t has a row, which is WAITING_TO_WORK / IN_PROGRESS
Waiting(t) == t \in DOMAIN tasks /\ tasks[t].status = "WAITING_TO_WORK"

InProgress(t) == t \in DOMAIN tasks /\ tasks[t].status = "IN_PROGRESS"

OfferSuspended == pollPc = "offer" /\ Len(queue) = QueueCapacity

\* C13: poll cycles never overlap: at most one pollCycle is in progress in any
\* state; a cycle starts only when none is in progress (the previous one
\* completed, with success or with a reported failure); none starts while the
\* running cycle is suspended in Queue.offer on a full queue.
PollCyclesNeverOverlap ==
  /\ [](cycles \in {0, 1} /\ (cycles = 1 <=> lastCycle = "running"))
  /\ [][cycles' > cycles
         => cycles = 0 /\ pollPc = "sleep" /\ lastCycle \in {"none", "ok", "error"}]_vars
  /\ [][OfferSuspended => cycles' = 1 /\ lastCycle' = "running"]_vars

\* C13 witness: a later cycle (three rows need two cycles) is suspended in
\* Queue.offer on a full queue, and it is the one cycle in progress.
WitnessCycleSuspended ==
  /\ OfferSuspended
  /\ Len(tasks) = QueueCapacity + 1
  /\ Len(pollIssues) = 1
  /\ cycles = 1

\* C14: a poll cycle that fails with a tracker error does not stop polling:
\* the failing cycle completes (the poller is back waiting for the interval,
\* having changed neither table nor queue nor any worker), the polling fiber
\* never stops, no worker exits, and another cycle is eventually started.
PollingSurvivesTrackerError ==
  /\ [](pollPc # "stopped" /\ \A w \in Workers : wpc[w] # "exited")
  /\ [][(lastCycle # "error" /\ lastCycle' = "error")
         => /\ pollPc' = "sleep"
            /\ cycles' = 0
            /\ UNCHANGED <<tasks, queue, enq, workerVars>>]_vars
  /\ (lastCycle = "error") ~> (lastCycle = "running" /\ pollPc = "fetch")

\* C14 witness: after a cycle that inserted and offered a task, a cycle has
\* failed with a tracker error; the poller waits for the next interval while
\* a worker executes the task.
WitnessTrackerError ==
  /\ lastCycle = "error"
  /\ pollPc = "sleep"
  /\ Len(tasks) = 1
  /\ \E w \in Workers : Holds(w, 1)

\* C15: the queue is FIFO: tasks are offered in the order of their ids and
\* taken in that same order (of two tasks, the one offered first is taken
\* first); the queue only changes by an offer appending at the back or by a
\* take removing the front, which is the task the taking worker receives.
QueueIsFifo ==
  /\ [](\A a, b \in TaskIds :
          a < b => /\ enq[b] = 1 => enq[a] = 1
                   /\ runs[b].takes = 1 => runs[a].takes = 1)
  /\ [][queue' # queue
         => \/ /\ pollPc = "offer"
               /\ queue' = Append(queue, pollTask[1])
               /\ enq'[pollTask[1].id] = enq[pollTask[1].id] + 1
               /\ UNCHANGED runs
            \/ /\ queue # <<>>
               /\ queue' = Tail(queue)
               /\ runs'[Head(queue).id].takes = runs[Head(queue).id].takes + 1
               /\ \E w \in Workers :
                    /\ wpc[w] = "take"
                    /\ wpc'[w] = "execute"
                    /\ wtask'[w].taskId = Head(queue).id
               /\ UNCHANGED enq]_vars

\* C15 witness: tasks 1 and 2 were both offered; a worker has taken task 1 and
\* task 2 is the one still queued.
WitnessFifo ==
  /\ enq[1] = 1 /\ enq[2] = 1
  /\ runs[1].takes = 1 /\ runs[2].takes = 0
  /\ Len(queue) = 1 /\ queue[1].id = 2
  /\ \E w \in Workers : Holds(w, 1) /\ wpc[w] = "execute"

\* C16: the queue is bounded: it never holds more than QueueCapacity tasks;
\* every task offered and not yet taken is in it exactly once (none dropped);
\* the poller's offer can complete exactly when the queue is not full, and
\* while it is full the poller stays where it is; a worker's take can complete
\* exactly when the queue is not empty, and while it is empty the worker stays
\* at Queue.take (it neither fails nor exits).
QueueIsBounded ==
  /\ [](Len(queue) <= QueueCapacity)
  /\ [](\A t \in TaskIds :
          Cardinality({k \in DOMAIN queue : queue[k].id = t}) = enq[t] - runs[t].takes)
  /\ [](pollPc = "offer" => (ENABLED pollCycleOffer <=> Len(queue) < QueueCapacity))
  /\ [](\A w \in Workers :
          wpc[w] = "take" => (ENABLED workflowWorkerTake(w) <=> queue # <<>>))
  /\ [][OfferSuspended
         => UNCHANGED <<pollPc, pollIssues, pollTask, lastCycle, cycles, tasks, enq>>]_vars
  /\ [][\A w \in Workers :
          (wpc[w] = "take" /\ queue = <<>>)
            => wpc'[w] = "take" /\ wtask'[w] = wtask[w] /\ wf'[w] = wf[w]]_vars

\* C16 witness: the queue holds QueueCapacity tasks and the poller is suspended
\* offering the next one, which has been inserted and not yet offered.
WitnessQueueFull ==
  /\ Len(queue) = QueueCapacity
  /\ pollPc = "offer"
  /\ pollTask = Some(tasks[QueueCapacity + 1])
  /\ enq[QueueCapacity + 1] = 0
  /\ \A k \in DOMAIN queue : queue[k] = tasks[k]

\* the tasks up to id t that no worker has taken yet
NotTakenUpTo(t) == {a \in 1..t : runs[a].takes = 0}

\* C17 as claimed: with two tasks, the second Queue.offer does not complete
\* before a worker has taken the first task.
SecondOfferWaitsForTake == enq[2] = 1 => runs[1].takes = 1

\* C17 amended: an offer completes only when the queue holds fewer than
\* QueueCapacity tasks: when the offer of a task has completed, at most
\* QueueCapacity of the tasks up to it had not been taken, so only the offer
\* that finds QueueCapacity tasks waiting suspends until a take.
OfferWaitsOnlyWhenFull ==
  /\ [][enq' # enq
         => /\ Len(queue) < QueueCapacity
            /\ Len(queue') = Len(queue) + 1
            /\ \A t \in TaskIds :
                 enq'[t] # enq[t] => Cardinality(NotTakenUpTo(t)) <= QueueCapacity]_vars
  /\ [](pollPc = "offer"
          => (ENABLED pollCycleOffer
                <=> Cardinality(NotTakenUpTo(pollTask[1].id)) <= QueueCapacity))

\* C17 witness: QueueCapacity tasks waited in the queue, the first was taken,
\* and the offer of the next task has completed: the queue is full again.
WitnessOfferResumed ==
  /\ enq[QueueCapacity + 1] = 1
  /\ runs[1].takes = 1
  /\ Cardinality(NotTakenUpTo(QueueCapacity + 1)) = QueueCapacity
  /\ Len(queue) = QueueCapacity

\* the clock of the retry schedule before the step: 0 until its first step
ScheduleClock == IF session.started THEN session.elapsed ELSE 0

\* C18: after the prompt is sent the session status is polled with
\* POLL_INTERVAL between the end of one check and the start of the next;
\* polling ends at once with success when a check finds the session idle,
\* and gives up only once MAX_POLL_DURATION has elapsed, so that no check of
\* the polling starts later than MAX_POLL_DURATION + POLL_INTERVAL; after
\* polling has given up exactly one further status check is made, runTask
\* succeeds if and only if that check reports idle, and otherwise it fails
\* with an error
AgentCompletionPolling ==
  /\ [][session.pc = "poll" /\ session'.pc = "poll"
          => /\ session'.elapsed >= ScheduleClock + POLL_INTERVAL
             /\ session'.elapsed <= ScheduleClock + POLL_INTERVAL + MaxCallSeconds]_vars
  /\ [][session.pc = "poll" /\ session'.pc = "done"
          => pollStatus(session'.last) = "idle" /\ session'.result = "idle"]_vars
  /\ [][session.pc = "poll" /\ session'.pc = "final"
          => /\ session'.elapsed >= MAX_POLL_DURATION
             /\ pollStatus(session'.last) # "idle"]_vars
  /\ [](session.pc = "poll" => ScheduleClock < MAX_POLL_DURATION + POLL_INTERVAL)
  /\ [](session.pc = "final" => session.finalChecks = 0)
  /\ [](session.pc = "done" /\ session.gaveUp
          => /\ session.finalChecks = 1
             /\ session.result = "idle" <=> session.last = "idle"
             /\ session.result # "idle"
                  => session.result = "fail" /\ session.error # "none")

\* polling gave up after the maximum wait and the final check found the
\* session idle
WitnessFinalCheckIdle ==
  /\ session.pc = "done"
  /\ session.gaveUp
  /\ session.elapsed >= MAX_POLL_DURATION
  /\ session.finalChecks = 1
  /\ session.result = "idle"

\* a paragraph holding the text node "Hello" followed by a heading holding
\* the text node "World"
HelloWorldDocument ==
  [isDoc |-> TRUE,
   content |-> <<[type |-> "paragraph", text |-> <<>>,
                  content |-> <<[type |-> "text", text |-> <<"Hello">>, content |-> <<>>]>>],
                 [type |-> "heading", text |-> <<>>,
                  content |-> <<[type |-> "text", text |-> <<"World">>, content |-> <<>>]>>]>>]

\* C19 as claimed: the paragraph "Hello" followed by the heading "World" is
\* rendered as "Hello\nWorld", with one newline between the two blocks
HelloWorldOneNewline ==
  adf.pc = "returned" /\ adf.doc = HelloWorldDocument
    => adf.text = <<"Hello", "\n", "World">>

\* C19: the paragraph "Hello" followed by the heading "World" is rendered as
\* "Hello\n\nWorld": the newline that ends the paragraph and the newline that
\* joins the blocks lie between the two texts, and the newline that ends the
\* heading is trimmed; in general the text returned neither starts nor ends
\* with whitespace
HelloWorldBlankLine ==
  adf.pc = "returned"
    => /\ adf.doc = HelloWorldDocument => adf.text = <<"Hello", "\n", "\n", "World">>
       /\ adf.text # <<>>
            => Head(adf.text) \notin Whitespace /\ adf.text[Len(adf.text)] \notin Whitespace

\* adfToText has returned the text of the paragraph "Hello" followed by the
\* heading "World"
WitnessHelloWorld ==
  /\ adf.pc = "returned"
  /\ adf.doc = HelloWorldDocument
  /\ Len(adf.text) = 4

\* a task of Jira id j has reached FAILED
HasFailed(j) == \E i \in RowsOf(j) : tasks[i].status = "FAILED"

\* C20: once a task of an item has reached FAILED, no poll cycle inserts a
\* new task for that item, and no task is offered to the queue more than once
NoAutomaticRetry ==
  /\ [][\A j \in IssueIds : HasFailed(j) => RowsOf(j)' = RowsOf(j)]_vars
  /\ [](\A t \in TaskIds : enq[t] <= 1)

\* the item at the head of the cycle has tasks, all of them DONE or FAILED
OnlyTerminalRows ==
  LET j == Head(pollIssues).id
  IN  /\ RowsOf(j) # {}
      /\ \A i \in RowsOf(j) : tasks[i].status \in {"DONE", "FAILED"}

\* C21: when processJiraIssue looks at an item all of whose tasks are DONE or
\* FAILED it does not skip the item; the next steps of the cycle are the
\* insert of one WAITING_TO_WORK row for that item and the offer of exactly
\* that row to the queue.
TerminalRowsNotActive ==
  /\ [][PollerStep /\ pollPc = "find" /\ OnlyTerminalRows
          => pollPc' = "insert" /\ skipped' = skipped /\ pollIssues' = pollIssues]_vars
  /\ [][PollerStep /\ pollPc = "insert"
          => /\ Len(tasks') = Len(tasks) + 1
             /\ tasks'[Len(tasks')].status = "WAITING_TO_WORK"
             /\ tasks'[Len(tasks')].jiraId = Head(pollIssues).id
             /\ pollTask' = Some(tasks'[Len(tasks')])
             /\ pollPc' = "offer"]_vars
  /\ [][PollerStep /\ pollPc = "offer"
          => /\ queue' = Append(queue, pollTask[1])
             /\ pollTask[1] = tasks[Len(tasks)]]_vars

\* C21 witness: task 1 ended DONE and task 2, inserted afterwards for the
\* same item, has been offered to the queue.
WitnessNewTaskAfterDone ==
  /\ Len(tasks) = 2
  /\ tasks[1].jiraId = tasks[2].jiraId
  /\ tasks[1].status = "DONE"
  /\ tasks[2].status = "WAITING_TO_WORK"
  /\ enq[2] = 1

\* C22: for an item without an active task the cycle inserts one row and
\* nothing else: the row is appended with a new id, status WAITING_TO_WORK,
\* the item's id and key, the item's current status name and the serialized
\* item; the cycle then offers exactly that row, once, before it goes on to
\* the next item; nothing else ever adds a row or a queue entry.
NewTaskForInactiveItem ==
  /\ [][PollerStep /\ pollPc = "find" /\ ActiveOf(Head(pollIssues).id) = {}
          => pollPc' = "insert" /\ tasks' = tasks /\ queue' = queue]_vars
  /\ [][PollerStep /\ pollPc = "insert"
          => LET issue == Head(pollIssues)
                 row == tasks'[Len(tasks')]
             IN  /\ tasks' = Append(tasks, row)
                 /\ \A i \in DOMAIN tasks : tasks[i].id # row.id
                 /\ row.status = "WAITING_TO_WORK"
                 /\ row.jiraId = issue.id
                 /\ row.jiraKey = issue.key
                 /\ row.jiraStatus = issue.status
                 /\ row.data = JsonStringify(issue)
                 /\ pollTask' = Some(row)
                 /\ queue' = queue
                 /\ pollPc' = "offer"]_vars
  /\ [][PollerStep /\ pollPc = "offer"
          => /\ queue' = Append(queue, tasks[Len(tasks)])
             /\ enq[Len(tasks)] = 0 /\ enq'[Len(tasks)] = 1
             /\ tasks' = tasks
             /\ pollIssues' = Tail(pollIssues)]_vars
  /\ [][Len(tasks') > Len(tasks) => PollerStep /\ pollPc = "insert"]_vars
  /\ [][Len(queue') > Len(queue) => PollerStep /\ pollPc = "offer"]_vars

\* C22 witness: an item reported in a status other than the one filtered on
\* was inserted with that status name and its serialization, and offered
WitnessSnapshotEnqueued ==
  /\ Len(tasks) = 1
  /\ tasks[1].jiraStatus = "Doing"
  /\ tasks[1].data = JsonStringify([id |-> tasks[1].jiraId, key |-> tasks[1].jiraKey,
                                    status |-> "Doing"])
  /\ queue = <<tasks[1]>>
  /\ enq[1] = 1

\* C23: the working directory and the branch of a workflow are the values of
\* tempDir and branchName at its task id (and Jira key); different task ids
\* have different directories; every directory on disk is the one of a task
\* of the table, and no two workers executing workflows use the same
\* directory or the same branch.
DirectoryExclusive ==
  /\ \A t1, t2 \in TaskIds : t1 # t2 => tempDir(t1) # tempDir(t2)
  /\ dirs \subseteq {tempDir(t) : t \in DOMAIN tasks}
  /\ \A w1, w2 \in Workers :
       (w1 # w2 /\ wpc[w1] # "take" /\ wpc[w2] # "take")
         => /\ tempDir(wtask[w1].taskId) # tempDir(wtask[w2].taskId)
            /\ branchName(wtask[w1].jiraKey, wtask[w1].taskId)
                 # branchName(wtask[w2].jiraKey, wtask[w2].taskId)
  /\ \A w \in Workers :
       wpc[w] # "take" => wtask[w].jiraKey = tasks[wtask[w].taskId].jiraKey

\* C23 witness: two workers are past the clone of two tasks, and both
\* directories exist
WitnessTwoDirectories ==
  /\ Holds(1, 2) /\ Holds(2, 1)
  /\ wpc[1] = "comments" /\ wpc[2] = "finalize"
  /\ tempDir(1) \in dirs /\ tempDir(2) \in dirs

\* no transition offered is named like the status requested, whatever the
\* case of the letters
Unresolvable ==
  \A i \in DOMAIN jira.transitions :
    toLowerCase(jira.transitions[i].name) # toLowerCase(jira.statusName)

\* C24: when no transition offered is named like the requested status, case
\* apart, transitionIssue ends with a JiraClientError without any POST, and
\* the status of the issue is as it was; when one is, the first such
\* transition is the only thing ever POSTed.
TransitionFailsFast ==
  /\ [](Unresolvable => jira.posts = <<>> /\ jira.issueStatus = "To Do")
  /\ [](Unresolvable /\ jira.pc = "done" => jira.result = "JiraClientError")
  /\ [](Unresolvable => jira.pc # "post")
  /\ [](jira.posts # <<>>
          => /\ Len(jira.posts) = 1
             /\ \E i \in DOMAIN jira.transitions :
                  /\ jira.transitions[i].id = jira.posts[1]
                  /\ toLowerCase(jira.transitions[i].name) = toLowerCase(jira.statusName)
                  /\ \A k \in 1..(i - 1) :
                       toLowerCase(jira.transitions[k].name) # toLowerCase(jira.statusName))
  /\ [](~Unresolvable /\ jira.pc = "done" /\ jira.result = "ok"
          => jira.posts # <<>>)

\* C24 witness: the tracker offered transitions, none of them named like the
\* status requested although one leads to it, and the call has failed
WitnessUnresolvable ==
  /\ jira.pc = "done"
  /\ jira.statusName = "Code Review"
  /\ jira.transitions = <<[id |-> "21", name |-> "Start Review", to |-> "Code Review"],
                          [id |-> "31", name |-> "Done", to |-> "Done"]>>
  /\ jira.result = "JiraClientError"
  /\ jira.posts = <<>>

\* this step is a call of db.insert
InsertCalled == db'.createdAt # db.createdAt \/ Len(tasks') > Len(tasks)

StepOrder(pc) ==
  CASE pc = "take" -> {"execute"}
    [] pc = "execute" -> {"clone", "handler"}
    [] pc = "clone" -> {"comments", "handler"}
    [] pc = "comments" -> {"opencode", "handler"}
    [] pc = "opencode" -> {"finalize", "handler"}
    [] pc = "finalize" -> {"log", "handler"}
    [] pc = "handler" -> {"log"}
    [] pc = "log" -> {"take", "exited"}
    [] OTHER -> {}

\* C26: a workflow goes through UpdateStatusToInProgress, CloneRepository,
\* FetchJiraComments, RunOpenCode and UpdateStatusToDone in that order, and
\* enters a step only when the one before succeeded: past step 1 the row is
\* IN_PROGRESS, past step 2 the directory exists and the compensation is
\* registered; the agent runs only then, and DONE is written only by the
\* finalize step, which is entered only from a successful agent run.
SagaStepOrder ==
  /\ [][\A w \in Workers : wpc'[w] # wpc[w] => wpc'[w] \in StepOrder(wpc[w])]_vars
  /\ [](\A w \in Workers :
          wpc[w] \in {"clone", "comments", "opencode", "finalize"}
            => /\ wf[w].cause = "none"
               /\ tasks[wtask[w].taskId].status = "IN_PROGRESS"
               /\ wf[w].calls = <<[status |-> "IN_PROGRESS", ok |-> TRUE]>>)
  /\ [](\A w \in Workers :
          wpc[w] \in {"comments", "opencode", "finalize"}
            => tempDir(wtask[w].taskId) \in dirs /\ wf[w].comp)
  /\ [][\A t \in DOMAIN tasks :
          tasks[t].status # "DONE" /\ tasks'[t].status = "DONE"
            => /\ tasks[t].status = "IN_PROGRESS"
               /\ \E w \in Workers : Holds(w, t) /\ wpc[w] = "finalize" /\ wpc'[w] = "log"]_vars

\* C26 witness: a workflow has gone through all five steps: both writes were
\* made in order and the row is DONE
WitnessAllSteps ==
  \E w \in Workers :
    /\ wpc[w] = "log"
    /\ wf[w].cause = "none"
    /\ wf[w].calls = <<[status |-> "IN_PROGRESS", ok |-> TRUE], [status |-> "DONE", ok |-> TRUE]>>
    /\ tasks[wtask[w].taskId].status = "DONE"
    /\ tempDir(wtask[w].taskId) \notin dirs

\* the tasks whose row is IN_PROGRESS
InProgressRows == {t \in DOMAIN tasks : tasks[t].status = "IN_PROGRESS"}

\* the tasks whose workflow a worker is executing
Executing == {t \in DOMAIN tasks : \E w \in Workers : Holds(w, t)}

\* C27 as claimed: the workflows executing at the same time, and so the rows
\* with status IN_PROGRESS, are never more than config.concurrency
InProgressWithinConcurrency ==
  /\ Cardinality(Executing) <= Concurrency
  /\ Cardinality(InProgressRows) <= Concurrency

\* C27: the workflows executing at the same time are never more than
\* config.concurrency, and neither are the IN_PROGRESS rows among them; an
\* IN_PROGRESS row that no worker is executing is one whose workflow was
\* executed and ended, and a workflow ends with its row still IN_PROGRESS
\* only when its last write, of FAILED, failed.
BoundedWorkerPool ==
  /\ Cardinality(Executing) <= Concurrency
  /\ Cardinality(InProgressRows \cap Executing) <= Concurrency
  /\ \A t \in InProgressRows \ Executing : runs[t].execs = 1
  /\ \A w \in Workers :
       (Ended(w) /\ tasks[wtask[w].taskId].status = "IN_PROGRESS")
         => /\ wf[w].calls # <<>>
            /\ wf[w].calls[Len(wf[w].calls)] = [status |-> "FAILED", ok |-> FALSE]

\* C27 witness: task 1 was left IN_PROGRESS by a workflow whose FAILED write
\* failed, and the two workers are executing tasks 2 and 3, both IN_PROGRESS
WitnessThreeInProgress ==
  /\ InProgressRows = {1, 2, 3}
  /\ Executing = {2, 3}
  /\ runs[1].execs = 1

\* the row of task t is DONE or FAILED
Finished(t) == t \in DOMAIN tasks /\ tasks[t].status \in {"DONE", "FAILED"}

\* the workflow of task t was executed and has ended, and the worker has
\* logged its outcome
Over(t) == runs[t].execs = 1 /\ \A w \in Workers : ~Holds(w, t)

\* the workflow of worker w has ended with its write of FAILED failing
FailedWriteLost(w) ==
  /\ wf[w].calls # <<>>
  /\ wf[w].calls[Len(wf[w].calls)] = [status |-> "FAILED", ok |-> FALSE]

\* C28 as claimed: every task inserted is eventually offered, eventually
\* taken, and eventually DONE or FAILED
EveryTaskFinishes ==
  \A t \in 1..MaxTasks :
    /\ (t \in DOMAIN tasks) ~> (enq[t] = 1)
    /\ (enq[t] = 1) ~> (runs[t].takes = 1)
    /\ (runs[t].takes = 1) ~> Finished(t)

\* C28: every task inserted is eventually offered, every task offered is
\* eventually taken, and the workflow of every task taken eventually ends;
\* when it has ended the row is DONE or FAILED unless the write of FAILED
\* failed, and then the row stays as it was
EveryTaskEnds ==
  /\ \A t \in 1..MaxTasks :
       /\ (t \in DOMAIN tasks) ~> (enq[t] = 1)
       /\ (enq[t] = 1) ~> (runs[t].takes = 1)
       /\ (runs[t].takes = 1) ~> Over(t)
  /\ [](\A w \in Workers :
          Ended(w) => Finished(wtask[w].taskId) \/ FailedWriteLost(w))
  /\ [][\A t \in DOMAIN tasks : Over(t) => tasks'[t] = tasks[t]]_vars

\* C28 witness: the workflow of task 1 has ended and was logged, its row was
\* never moved out of WAITING_TO_WORK, and task 2 has finished since
WitnessLeftWaiting ==
  /\ Len(tasks) = 2
  /\ tasks[1].status = "WAITING_TO_WORK"
  /\ runs[1].execs = 1
  /\ \A w \in Workers : ~Holds(w, 1)
  /\ Finished(2)

\* C29: a task is offered to the queue only by the cycle that inserted it; a
\* row that was WAITING_TO_WORK or IN_PROGRESS when the process restarted is
\* never offered or taken afterwards and never changes, no task is inserted
\* for its Jira id after it, and every cycle that finds its item skips it.
NoReconciliation ==
  /\ [][Len(queue') > Len(queue)
          => pollPc = "offer" /\ queue' = Append(queue, tasks[Len(tasks)])]_vars
  /\ [](\A t \in boot.orphans :
          /\ tasks[t].status \in ACTIVE_STATUSES
          /\ \A k \in DOMAIN queue : queue[k].id # t
          /\ \A w \in Workers : ~Holds(w, t)
          /\ \A i \in RowsOf(tasks[t].jiraId) : i <= t)
  /\ [][\A t \in boot.orphans :
          tasks'[t] = tasks[t] /\ enq'[t] = enq[t] /\ runs'[t] = runs[t]]_vars
  /\ [][(/\ PollerStep /\ pollPc = "find" /\ boot' = boot
         /\ \E t \in boot.orphans : tasks[t].jiraId = Head(pollIssues).id)
          => skipped' = Append(skipped, Head(pollIssues)) /\ tasks' = tasks
               /\ queue' = queue]_vars

\* C29 witness: the process restarted while task 1 was IN_PROGRESS; a cycle
\* of the new process has found the item, skipped it and completed
WitnessOrphanSkipped ==
  /\ boot.restarts = 1
  /\ boot.orphans = {1}
  /\ tasks[1].status = "IN_PROGRESS"
  /\ Len(skipped) = 1
  /\ skipped[1].id = tasks[1].jiraId
  /\ lastCycle = "ok"

\* C30: a cycle deals with the issues of the response one at a time from the
\* head: every step between the search and the end of the cycle is about the
\* issue at the head of what remains, and removes at most that issue; a task
\* is inserted only when the task before it has been offered; so ids, offers
\* and takes all follow the order of the response: the queue is in id order,
\* a task is offered only after all tasks with smaller ids, and taken only
\* after all of them were taken.
PollerOrdering ==
  /\ [][PollerStep /\ pollPc \in {"find", "insert", "offer"}
          => /\ pollIssues' \in {pollIssues, Tail(pollIssues)}
             /\ pollPc' = "sleep" <=> pollIssues' = <<>>]_vars
  /\ [][Len(tasks') > Len(tasks)
          => /\ tasks'[Len(tasks')].jiraId = Head(pollIssues).id
             /\ \A t \in DOMAIN tasks : enq[t] = 1]_vars
  /\ [](\A i, k \in DOMAIN queue : i < k => queue[i].id < queue[k].id)
  /\ [][\A t \in DOMAIN tasks :
          enq'[t] > enq[t] => \A u \in 1..(t - 1) : enq[u] = 1]_vars
  /\ [][\A t \in DOMAIN tasks :
          runs'[t].takes > runs[t].takes => \A u \in 1..(t - 1) : runs[u].takes = 1]_vars

\* C30 witness: the tasks of two different items were inserted and are in
\* the queue in the order of their ids, and the cycle has completed
WitnessQueuedInOrder ==
  /\ Len(tasks) = 2
  /\ tasks[1].jiraId # tasks[2].jiraId
  /\ queue = <<tasks[1], tasks[2]>>
  /\ skipped = <<>>
  /\ lastCycle = "ok"

\* the first page that has isLast = true or no next page token
FirstEndPage(pages) ==
  CHOOSE k \in 1..Len(pages) :
    /\ pages[k].isLast = "true" \/ orEmpty(pages[k].nextPageToken) = ""
    /\ \A j \in 1..(k - 1) :
         pages[j].isLast # "true" /\ orEmpty(pages[j].nextPageToken) # ""

\* the issues of the first k pages, in response order
RECURSIVE IssuesUpTo(_, _)
IssuesUpTo(pages, k) ==
  IF k = 0 THEN <<>> ELSE IssuesUpTo(pages, k - 1) \o pages[k].issues

\* C31: searchAssignedIssues returns the issues of the pages fetched, in
\* response order, the last page fetched being the first one with
\* isLast = true or without a next page token; a page request that fails in
\* any way fails the whole search, which then returns no list.
PaginatedSearch ==
  search.pc # "none" =>
    LET k == FirstEndPage(search.pages)
    IN  /\ search.pc = "request" => search.requests < k /\ search.result = "none"
        /\ search.result = "ok" =>
              /\ search.requests = k
              /\ search.returned = Some(IssuesUpTo(search.pages, k))
        /\ search.outcome \notin {"none", "ok"} =>
              search.pc = "done" /\ search.result = "JiraClientError"
        /\ search.result = "JiraClientError" =>
              search.returned = None /\ search.requests <= k
        /\ search.pc = "done" => search.result \in {"ok", "JiraClientError"}

\* two pages were fetched, each with an issue, and the search returned both
WitnessTwoPages ==
  /\ search.result = "ok"
  /\ search.requests = 2
  /\ search.pages[1].issues # <<>>
  /\ search.pages[2].issues # <<>>
  /\ Len(search.returned[1]) = 2

\* C32: the poll cycle whose tracker fetch fails makes no insert and no
\* enqueue: neither its start nor the failing fetch changes the task table or
\* the queue, and it ends with no issue left to process.
FailedCycleFrame ==
  [][/\ (pollPc = "sleep" /\ pollPc' = "fetch") =>
          tasks' = tasks /\ queue' = queue /\ enq' = enq
     /\ (pollPc = "fetch" /\ lastCycle' = "error") =>
          /\ tasks' = tasks /\ queue' = queue /\ enq' = enq
          /\ pollPc' = "sleep" /\ pollIssues' = pollIssues /\ pollTask' = pollTask]_vars

\* a fetch failed while the table held a row and the queue a task
WitnessFailedCycle ==
  /\ lastCycle = "error"
  /\ pollPc = "sleep"
  /\ Len(tasks) = 1
  /\ Len(queue) = 1

\* C33: the CloneRepository step executed for a task whose directory was left
\* by an earlier attempt removes that directory, then clones and branches:
\* the directories and the result are those of one execution, with the same
\* git outcomes, on a system where the directory does not exist, and no other
\* directory is touched.
StepTwoReExecutable ==
  [][git'.op = "CloneRepository" =>
       LET t == git'.args[1]
           dir == tempDir(t)
           clean == [git.fs EXCEPT ![dir] = Absent]
           once == CloneRepositoryExecute(clean, repositoryUrl, dir,
                                          branchName("PROJ-1", t),
                                          git'.args[2], git'.args[3])
       IN  /\ git'.fs = once.fs
           /\ git'.result = once.result
           /\ git'.ran = once.ran
           /\ \A d \in GitDirs \ {dir} : git'.fs[d] = git.fs[d]
           /\ (git'.args[2] = "exit-zero" /\ git'.args[3] = "exit-zero") =>
                /\ git'.result = "ok"
                /\ git'.fs[dir] = [FreshClone EXCEPT !.branch = branchName("PROJ-1", t)]]_vars

\* the step ran for task 1 where an earlier attempt had left a repository
\* with uncommitted changes on the task's branch, and produced a fresh clone
\* on the new branch
WitnessStaleDirectory ==
  /\ git.op = "CloneRepository"
  /\ git.args[1] = 1
  /\ git.found = <<[kind |-> "repo", branch |-> branchName("PROJ-1", 1), dirty |-> TRUE]>>
  /\ git.result = "ok"
  /\ git.fs[tempDir(1)] = [FreshClone EXCEPT !.branch = branchName("PROJ-1", 1)]

\* a string that is empty or consists of whitespace only
WhitespaceOnly(str) == \A i \in DOMAIN str : str[i] \in Whitespace

\* C39: clone called with an empty or whitespace-only repository URL or
\* target directory, and checkoutNewBranch called with an empty or
\* whitespace-only working directory or branch name, fail with a GitError
\* without running any git command and leave every directory as it was.
GitPreconditions ==
  [][(/\ git'.op \in {"clone", "checkoutNewBranch"}
      /\ WhitespaceOnly(git'.args[1]) \/ WhitespaceOnly(git'.args[2]))
     => /\ git'.error
        /\ git'.result = "GitError"
        /\ git'.ran = <<>>
        /\ git'.fs = git.fs]_vars

\* clone was called with a whitespace-only URL and a valid directory, and
\* failed without running git
WitnessBlankUrl ==
  /\ git.op = "clone"
  /\ git.args = <<<<" ", "\n">>, tempDir(1)>>
  /\ git.error
  /\ git.ran = <<>>

\* C34: runTask reports completion only if a status check found the session
\* idle or, in the polling loop only, found it absent from the status map;
\* a final check that finds the session absent does not count as idle, and
\* runTask then fails with the error polling gave up with.
CompletionOnlyWhenIdle ==
  /\ session.result = "idle" =>
       \/ session.last = "idle"
       \/ session.last = "missing" /\ ~session.gaveUp /\ session.finalChecks = 0
  /\ (session.pc = "done" /\ session.finalChecks > 0 /\ session.last = "missing") =>
       /\ session.result = "fail"
       /\ session.error \in {"Failed to get session status", "Session still busy",
                             "Session still retry"}

\* polling gave up and the final check found the session absent: runTask
\* failed
WitnessFinalCheckAbsent ==
  /\ session.pc = "done"
  /\ session.gaveUp
  /\ session.finalChecks = 1
  /\ session.last = "missing"
  /\ session.result = "fail"

\* C35: updateStatus(id, status) sets the status and updated_at of the row
\* with that id, whatever its status was, and changes no other row and no
\* other column; when no row has that id the table is left as it was.
UpdateStatusFrame ==
  [][(db'.clock = db.clock /\ db'.call # <<>> /\ db'.call[1] = "updateStatus") =>
       LET id == db'.call[2]
           status == db'.call[3]
       IN  /\ Len(tasks') = Len(tasks)
           /\ db'.createdAt = db.createdAt
           /\ \A i \in DOMAIN tasks :
                IF i = id
                THEN /\ tasks'[i] = [tasks[i] EXCEPT !.status = status]
                     /\ db'.updatedAt[i] = db.clock
                ELSE /\ tasks'[i] = tasks[i]
                     /\ db'.updatedAt[i] = db.updatedAt[i]
           /\ id \notin DOMAIN tasks => tasks' = tasks /\ db'.updatedAt = db.updatedAt]_vars

\* a DONE row was set back to WAITING_TO_WORK a second or more after it was
\* created, next to a row that kept its status and its updated_at
WitnessStatusOverwritten ==
  /\ db.call = <<"updateStatus", 1, "WAITING_TO_WORK">>
  /\ db.old = Some("DONE")
  /\ Len(tasks) = 2
  /\ tasks[1].status = "WAITING_TO_WORK"
  /\ db.updatedAt[1] > db.createdAt[1]
  /\ tasks[2].status = "FAILED"
  /\ db.updatedAt[2] = db.createdAt[2]

\* C36: findActiveByJiraId(jiraId) returns none exactly when no row of that
\* jiraId is WAITING_TO_WORK or IN_PROGRESS; otherwise it returns a row of the
\* table that has that jiraId and one of these statuses and that no other
\* such row was created after.
FindActiveMostRecent ==
  (db.call # <<>> /\ db.call[1] = "findActiveByJiraId") =>
    LET jiraId == db.call[2]
        act == {i \in DOMAIN tasks : /\ tasks[i].jiraId = jiraId
                                     /\ tasks[i].status \in {"WAITING_TO_WORK", "IN_PROGRESS"}}
    IN  /\ db.found = None <=> act = {}
        /\ db.found # None =>
             LET row == db.found[1]
             IN  /\ row.id \in act
                 /\ row = tasks[row.id]
                 /\ \A j \in act : db.createdAt[j] <= db.createdAt[row.id]

\* the lookup returned the later of two active rows of one item, created a
\* second apart, while a terminal row of the item and none of another item
\* exist
WitnessLatestActive ==
  /\ db.call = <<"findActiveByJiraId", "10001">>
  /\ Len(tasks) = 2
  /\ tasks[1].jiraId = "10001" /\ tasks[1].status = "IN_PROGRESS"
  /\ tasks[2].jiraId = "10001" /\ tasks[2].status = "WAITING_TO_WORK"
  /\ db.createdAt[1] < db.createdAt[2]
  /\ db.found = Some(tasks[2])

\* C38 as claimed: the list subcommand displays at most `limit` tasks, with
\* and without a status filter
ListAtMostLimit ==
  listing.pc = "done" => Len(listing.displayTasks) <= listing.limit

\* the remote URLs in a form of the host: the SSH form, or an HTTPS form with
\* workspace and repository
RecognizedUrls ==
  {<<"git@bitbucket.org:", "ws", "/", "repo", ".git">>,
   <<"https://", "bitbucket.org/", "ws", "/", "repo", ".git">>,
   <<"https://", "user@", "bitbucket.org/", "ws", "/", "repo">>}

\* C37 as claimed: with a remote URL that is neither in the SSH form nor in
\* an HTTPS form of the host with workspace and repository, getBitbucketPrUrl
\* fails in the finalize step, which then posts no comment for the task, and
\* still writes DONE and ends the workflow with success when that write
\* succeeds.
PrUrlFailureSwallowed ==
  /\ [](\A w \in Workers : repositoryUrl \notin RecognizedUrls => wf[w].comments = <<>>)
  /\ [][\A w \in Workers :
          (wpc[w] = "finalize" /\ wpc'[w] # "finalize" /\ repositoryUrl \notin RecognizedUrls)
            => LET calls == wf'[w].calls
                   t == wtask[w].taskId
               IN  /\ "pr-url" \in wf'[w].sub
                   /\ wf'[w].comments = wf[w].comments
                   /\ Len(calls) = Len(wf[w].calls) + 1
                   /\ calls[Len(calls)].status = "DONE"
                   /\ calls[Len(calls)].ok =>
                        /\ tasks'[t].status = "DONE"
                        /\ wf'[w].cause = "none"
                        /\ wpc'[w] = "log"]_vars

====
